---- MODULE Spec2Model ----
(***************************************************************************)
(* Hyperliquid whale bot: the stream client (hyperliquid.js), the trade   *)
(* deduplicator, the rate limiter and the position tracker                 *)
(* (whaleTracker.js), and the price cache (hyperliquid.js).                *)
(*                                                                         *)
(* Each component has its own specification over the same variables:      *)
(*   SpecWs       connectWebSocket and its open/message/error/close        *)
(*                callbacks, the heartbeat and the reconnect timer         *)
(*   SpecDedup    handleWebSocketMessage from the trades array on          *)
(*   SpecLimiter  RateLimiter.waitForSlot / processQueue                   *)
(*   SpecPrices   fetchRealTimePrices and its cache                        *)
(*   SpecTracker  the reconciliation loop of scanWhalePositions            *)
(*   SpecScan     scanWhalePositions from the exchange's responses on      *)
(*   SpecMain     main, the scan interval, the shutdown signal and the     *)
(*                stream callbacks of the running process                  *)
(*                                                                         *)
(* Numbers are exact: sizes and prices are integers, the reconnect delay   *)
(* is a rational kept as a numerator over DelayDen.  Floating-point        *)
(* rounding is not modelled.                                               *)
(***************************************************************************)
EXTENDS Integers, Sequences, FiniteSets, TLC

(***************************************************************************)
(* Program constants                                                       *)
(***************************************************************************)
MAX_RECONNECT_ATTEMPTS == 10
RECONNECT_DELAY_MS == 5000
MIN_POSITION_VALUE == 10000
PRICE_CACHE_TTL_MS == 30000
\* new RateLimiter(5, 60 * 1000)
MAX_REQUESTS == 5
TIME_WINDOW_MS == 60 * 1000
MONITORED_ASSETS == <<"BTC", "ETH", "SOL">>
Assets == {MONITORED_ASSETS[i] : i \in 1..Len(MONITORED_ASSETS)}

(***************************************************************************)
(* Bounds of the model                                                     *)
(***************************************************************************)
\* pings counted on one connection before the heartbeat is no longer followed
MaxPings == 2
\* distinct trade identifiers the exchange delivers (1..NumTradeIds)
NumTradeIds == 3
\* trades in one message
MaxMsgTrades == 2
\* stands for MAX_CACHED_TRADE_IDS = 10000 (whaleTracker.js:53)
MAX_CACHED_TRADE_IDS == 2
\* stands for the 1000 identifiers deleted per eviction (whaleTracker.js:144)
EVICT_BATCH == 1
\* whale trades recorded before the stream is no longer followed
MaxWhaleLog == 1
\* the clock runs from StartMs for MaxTicks steps of TickMs
MaxTicks == 9
\* calls of waitForSlot that may be suspended at once
NumCallers == 2
\* calls of fetchRealTimePrices suspended in fetch at once
MaxPending == 2
\* executions of scanWhalePositions followed at once
MaxScans == 2
\* leverage multipliers of the positions analysed on their own (1..MaxLeverage)
MaxLeverage == 12

RECURSIVE Pow(_, _)
Pow(b, e) == IF e = 0 THEN 1 ELSE b * Pow(b, e - 1)

Abs(x) == IF x < 0 THEN -x ELSE x

Count(x, seq) == Cardinality({i \in 1..Len(seq) : seq[i] = x})

VARIABLES
  \* ---- stream client (hyperliquid.js:23-27) ----
  wsReadyState,          \* readyState of wsConnection: "NONE" before the first connect
  wsReconnectAttempts,
  wsHeartbeatInterval,   \* TRUE while the setInterval handle is set
  reconnectTimers,       \* pending setTimeout callbacks of the close handler
  staleSockets,          \* sockets terminated by connectWebSocket whose close event is due
  lastDelay,             \* delay handed to the last setTimeout, times DelayDen
  subscribed,            \* subscribe messages sent on the current connection, in order
  pings,                 \* pings sent on the current connection
  log                    \* source of the last console.error / console.warn line

wsVars == <<wsReadyState, wsReconnectAttempts, wsHeartbeatInterval, reconnectTimers,
            staleSockets, lastDelay, subscribed, pings, log>>

VARIABLES
  \* ---- trade stream handler (whaleTracker.js:37-53) ----
  processedTradeIds,     \* the Set, as the sequence of its members in insertion order
  recentWhaleTrades,     \* identifiers of the trades pushed, in order
  pendingPriceUpdates,   \* the assets of newTrades[0] of the handlers suspended before whaleTracker.js:174
  marketStats,           \* asset -> [price, openInterest]
  lastKnown,             \* identifiers of the last message that were recorded when it arrived
  lastKept,              \* identifiers the last filter kept (newTrades), in order
  lastRejected,          \* identifiers the last filter rejected
  lastEvicted,           \* identifiers the last filter evicted, in order
  lastTrigger            \* <<tid>> for the last filter call that evicted, or <<>>

dedupVars == <<processedTradeIds, recentWhaleTrades, pendingPriceUpdates, lastKnown,
               lastKept, lastRejected, lastEvicted, lastTrigger>>

VARIABLES
  now                    \* Date.now(), in ms

VARIABLES
  \* ---- RateLimiter (whaleTracker.js:55-104), the instance tweetRateLimiter ----
  requests,              \* this.requests
  queue,                 \* this.queue: the callers whose resolve is queued
  processing,            \* this.processing
  wakeAt,                \* when the setTimeout of processQueue is due, -1 when none is set
  admissions             \* times of the last admissions (resolve() calls), oldest first

limiterVars == <<requests, queue, processing, wakeAt, admissions>>

VARIABLES
  \* ---- price cache (hyperliquid.js:17-20) ----
  cacheLastUpdated,      \* assetPriceCache.lastUpdated
  cachePrices,           \* assetPriceCache.prices: asset -> price, 0 for a missing key
  pendingFetches,        \* Date.now() of the calls suspended in fetch (hyperliquid.js:191)
  lastCall,              \* the last call of fetchRealTimePrices: [at, network]
  lastSuccess,           \* call time of the fetch whose prices were cached last, -1 if none
  lastReturn             \* the prices the last completed call returned

priceVars == <<cacheLastUpdated, cachePrices, pendingFetches, lastCall, lastSuccess,
               lastReturn>>

VARIABLES
  \* ---- position tracker (whaleTracker.js:37) ----
  trackedPositions,      \* the Map: asset -> position of wallet W, or NoPosition
  scanPc,                \* where scanWhalePositions is suspended
  scanCall,              \* Date.now() of the cycle's suspended fetchRealTimePrices call
  scanPrices,            \* the prices fetchRealTimePrices returned to updateMarketStats
  currentPositions,      \* the snapshot of the cycle, in the order it was built
  events,                \* asset -> what the last reconciliation did for the key
  scanLog,               \* the error fetchActivePositions logged in this cycle, or "none"
  scenario               \* how many cycles of the lifecycle scenario have just been reported

trackerVars == <<trackedPositions, scanPc, scanCall, scanPrices, currentPositions, events,
                 scanLog, scenario>>

VARIABLES
  \* ---- the process (whaleTracker.js:719-733, :747-791) ----
  mainPc,                \* where main is: "start", "initial-scan", "running"
  scans,                 \* the executions of scanWhalePositions in progress, oldest first:
                         \* for each the await it is suspended at
  exited,                \* process.exit has been called
  aborted,               \* the executions in progress when process.exit was called
  closeCalled            \* closeWebSocket has been called

mainVars == <<mainPc, scans, exited, aborted, closeCalled>>

VARIABLES
  lastMessage            \* the last frame the message callback ran for: its channel and
                         \* how many times it called messageHandler

vars == <<wsVars, dedupVars, marketStats, now, limiterVars, priceVars, trackerVars,
          mainVars, lastMessage>>

\* what the actions of one component leave alone
OnlyWs == UNCHANGED <<dedupVars, marketStats, now, limiterVars, priceVars, trackerVars,
                      mainVars, lastMessage>>
OnlyDedup == UNCHANGED <<wsVars, now, limiterVars, priceVars, trackerVars, mainVars,
                         lastMessage>>
OnlyLimiter == UNCHANGED <<wsVars, dedupVars, marketStats, priceVars, trackerVars,
                           mainVars, lastMessage>>
OnlyPrices == UNCHANGED <<wsVars, dedupVars, marketStats, limiterVars, trackerVars,
                          mainVars, lastMessage>>
OnlyTracker == UNCHANGED <<wsVars, dedupVars, limiterVars, mainVars, lastMessage>>

(***************************************************************************)
(* Stream client                                                           *)
(***************************************************************************)
\* Math.pow(1.5, k) is 3^k / 2^k; delays are kept as numerators over DelayDen
DelayDen == Pow(2, MAX_RECONNECT_ATTEMPTS)

\* a delay computed from the counter after its increment
DelayAfterIncrement(attempts) ==
  RECONNECT_DELAY_MS * Pow(3, attempts + 1) * Pow(2, MAX_RECONNECT_ATTEMPTS - attempts - 1)

\* hyperliquid.js:96  RECONNECT_DELAY_MS * Math.pow(1.5, wsReconnectAttempts)
ReconnectDelay(attempts) ==
  RECONNECT_DELAY_MS * Pow(3, attempts) * Pow(2, MAX_RECONNECT_ATTEMPTS - attempts)

Ms(n) == n * DelayDen

InitWs ==
  /\ wsReadyState = "NONE"
  /\ wsReconnectAttempts = 0
  /\ wsHeartbeatInterval = FALSE
  /\ reconnectTimers = 0
  /\ staleSockets = 0
  /\ lastDelay = 0
  /\ subscribed = <<>>
  /\ pings = 0
  /\ log = "none"
  /\ lastMessage = [channel |-> "none", handler |-> 0]

\* hyperliquid.js:30-42: terminate the current socket, open a new one
connectWebSocket ==
  /\ staleSockets' = IF wsReadyState \in {"CONNECTING", "OPEN", "CLOSING"}
                       THEN staleSockets + 1 ELSE staleSockets
  /\ wsReadyState' = "CONNECTING"
  /\ subscribed' = <<>>
  /\ pings' = 0

\* whaleTracker.js:782: the one call main makes
MainConnect ==
  /\ wsReadyState = "NONE"
  /\ connectWebSocket
  /\ UNCHANGED <<wsReconnectAttempts, wsHeartbeatInterval, reconnectTimers, lastDelay, log>>
  /\ OnlyWs

\* a client whose open callback leaves the counter as it is
AttemptsKept(attempts) == attempts

\* hyperliquid.js:46: wsReconnectAttempts = 0
AttemptsAfterOpen(attempts) == 0

\* a subscribe that tests for the state before the open event
SubscribeWhileConnecting(readyState, sent, asset) ==
  IF readyState = "CONNECTING" THEN Append(sent, asset) ELSE sent

\* hyperliquid.js:115-129: the message is sent only on an open socket
subscribeToAsset(readyState, sent, asset) ==
  IF readyState = "OPEN" THEN Append(sent, asset) ELSE sent

\* hyperliquid.js:49-51: MONITORED_ASSETS.forEach(asset => subscribeToAsset(ws, asset))
SubscribeAll(readyState) ==
  LET F[i \in 0..Len(MONITORED_ASSETS)] ==
        IF i = 0 THEN <<>>
        ELSE subscribeToAsset(readyState, F[i - 1], MONITORED_ASSETS[i])
  IN F[Len(MONITORED_ASSETS)]

\* hyperliquid.js:44-64: the open callback
WsOpen ==
  /\ wsReadyState = "CONNECTING"
  /\ wsReadyState' = "OPEN"
  /\ wsReconnectAttempts' = AttemptsAfterOpen(wsReconnectAttempts)
  /\ subscribed' = SubscribeAll("OPEN")
  /\ wsHeartbeatInterval' = TRUE
  /\ UNCHANGED <<reconnectTimers, staleSockets, lastDelay, pings, log>>
  /\ OnlyWs

\* hyperliquid.js:58-63: the heartbeat callback
HeartbeatTick ==
  /\ wsHeartbeatInterval
  /\ pings < MaxPings
  /\ pings' = IF wsReadyState = "OPEN" THEN pings + 1 ELSE pings
  /\ UNCHANGED <<wsReadyState, wsReconnectAttempts, wsHeartbeatInterval, reconnectTimers,
                 staleSockets, lastDelay, subscribed, log>>
  /\ OnlyWs

\* an error callback that schedules a reconnect of its own
ReconnectOnError(timers) == timers + 1

\* hyperliquid.js:81-83: the error callback logs and sets no timer
TimersAfterError(timers) == timers

\* hyperliquid.js:81-83: the error callback
WsError ==
  /\ wsReadyState \in {"CONNECTING", "OPEN"}
  /\ log' = "ws-error"
  /\ reconnectTimers' = TimersAfterError(reconnectTimers)
  /\ UNCHANGED <<wsReadyState, wsReconnectAttempts, wsHeartbeatInterval,
                 staleSockets, lastDelay, subscribed, pings>>
  /\ OnlyWs

\* a close handler that also retries when the counter has reached the maximum
MayReconnectAtMax(attempts) == attempts <= MAX_RECONNECT_ATTEMPTS

\* hyperliquid.js:95: may the close handler schedule a reconnect
MayReconnect(attempts) == attempts < MAX_RECONNECT_ATTEMPTS

\* a close handler that leaves the heartbeat timer running
HeartbeatKept(interval) == interval

\* hyperliquid.js:89-92: clearInterval(wsHeartbeatInterval); wsHeartbeatInterval = null
HeartbeatAfterClose(interval) == FALSE

\* hyperliquid.js:85-109: the close callback, of the current socket or of a stale one
WsClose(stale) ==
  /\ IF stale
       THEN /\ staleSockets > 0
            /\ staleSockets' = staleSockets - 1
            /\ UNCHANGED wsReadyState
       ELSE /\ wsReadyState \in {"CONNECTING", "OPEN", "CLOSING"}
            /\ wsReadyState' = "CLOSED"
            /\ UNCHANGED staleSockets
  /\ wsHeartbeatInterval' = HeartbeatAfterClose(wsHeartbeatInterval)
  /\ IF MayReconnect(wsReconnectAttempts)
       THEN /\ lastDelay' = ReconnectDelay(wsReconnectAttempts)
            /\ wsReconnectAttempts' = wsReconnectAttempts + 1
            /\ reconnectTimers' = reconnectTimers + 1
            /\ UNCHANGED log
       ELSE /\ log' = "reconnect-failed"
            /\ UNCHANGED <<lastDelay, wsReconnectAttempts, reconnectTimers>>
  /\ UNCHANGED <<subscribed, pings>>
  /\ OnlyWs

\* hyperliquid.js:101-105: the reconnect timer fires
ReconnectTimer ==
  /\ reconnectTimers > 0
  /\ reconnectTimers' = reconnectTimers - 1
  /\ connectWebSocket
  /\ UNCHANGED <<wsReconnectAttempts, wsHeartbeatInterval, lastDelay, log>>
  /\ OnlyWs

\* hyperliquid.js:439-448: the heartbeat is cleared, an open socket is sent the close
\* frame (readyState CLOSING until its close event), nothing else is touched
closeWebSocket ==
  /\ wsHeartbeatInterval' = FALSE
  /\ wsReadyState' = IF wsReadyState = "OPEN" THEN "CLOSING" ELSE wsReadyState
  /\ closeCalled' = TRUE
  /\ UNCHANGED <<wsReconnectAttempts, reconnectTimers, staleSockets, lastDelay,
                 subscribed, pings, log>>

\* closeWebSocket called while the process goes on
CloseWebSocket ==
  /\ ~closeCalled
  /\ closeWebSocket
  /\ UNCHANGED <<mainPc, scans, exited, aborted>>
  /\ UNCHANGED <<dedupVars, marketStats, now, limiterVars, priceVars, trackerVars,
                 lastMessage>>

(***************************************************************************)
(* Trade stream handler                                                    *)
(***************************************************************************)
\* A trade identifier names one trade: tid 0 stands for a missing (falsy) tid
TradeIds == 0..NumTradeIds

\* the raw trade the exchange delivers under identifier tid: trade 1 is worth 50000,
\* the others less than MIN_POSITION_VALUE
RawTrade(tid) ==
  IF tid = 1
    THEN [coin |-> "BTC", px |-> 50000, sz |-> 1, tid |-> tid]
    ELSE [coin |-> "ETH", px |-> 2500, sz |-> 1, tid |-> tid]

\* hyperliquid.js:140-155: the trade built from a raw trade, given the multiplier as
\* a divisor (10^szDecimals)
TradeOf(raw, divisor) ==
  LET size == raw.sz \div divisor
      notionalValue == size * raw.px
  IN [asset |-> raw.coin, price |-> raw.px, size |-> size,
      notionalValue |-> notionalValue,
      isWhale |-> notionalValue >= MIN_POSITION_VALUE,
      tradeId |-> raw.tid]

\* hyperliquid.js:132-159.  Line 139 reads assetCtxs and assetIndices, which
\* hyperliquid.js neither declares nor imports: evaluating it for the first element
\* of a non-empty array throws a ReferenceError.
extractTradeData(message) ==
  IF message.channel = "trades"
    THEN IF Len(message.data) > 0 THEN "ReferenceError" ELSE "empty"
    ELSE "null"

\* an eviction loop that deletes nothing
EvictNone(ids) == 0

\* whaleTracker.js:144-146: identifiers deleted once the size has passed the maximum
EvictCount(ids) == IF Len(ids) < EVICT_BATCH THEN Len(ids) ELSE EVICT_BATCH

\* whaleTracker.js:142
OverMax(ids) == Len(ids) > MAX_CACHED_TRADE_IDS

\* a filter that forgets to look the identifier up
RejectsMissingOnly(ids, tid) == tid = 0

\* whaleTracker.js:136
Rejects(ids, tid) == tid = 0 \/ \E i \in 1..Len(ids) : ids[i] = tid

\* an eviction that deletes from the end of the insertion order
KeepOldest(added, n) == SubSeq(added, 1, Len(added) - n)

\* whaleTracker.js:143-146: the Set iterates in insertion order, so the loop deletes
\* the n identifiers inserted earliest
KeepNewest(added, n) == SubSeq(added, n + 1, Len(added))

\* whaleTracker.js:135-150: the filter callback for one trade
\* r = [ids, kept, rejected, evicted, trigger] accumulates over the array
AdmitOne(r, tid) ==
  IF Rejects(r.ids, tid)
    THEN [r EXCEPT !.rejected = @ \cup {tid}]
    ELSE LET added == Append(r.ids, tid)
         IN IF OverMax(added)
              THEN [ids     |-> KeepNewest(added, EvictCount(added)),
                    kept    |-> Append(r.kept, tid),
                    evicted |-> r.evicted \o SubSeq(added, 1, EvictCount(added)),
                    rejected |-> r.rejected,
                    trigger |-> <<tid>>]
              ELSE [r EXCEPT !.ids = added, !.kept = Append(r.kept, tid)]

RECURSIVE AdmitAll(_, _)
AdmitAll(r, tids) ==
  IF tids = <<>> THEN r ELSE AdmitAll(AdmitOne(r, Head(tids)), Tail(tids))

\* whaleTracker.js:135-150: trades.filter(...)
AdmitFilter(ids, tids) ==
  AdmitAll([ids |-> ids, kept |-> <<>>, rejected |-> {}, evicted |-> <<>>,
            trigger |-> <<>>], tids)

\* hyperliquid.js:162-176
processWhaleTrades(tids) ==
  LET F[i \in 0..Len(tids)] ==
        IF i = 0 THEN <<>>
        ELSE IF TradeOf(RawTrade(tids[i]), 1).isWhale
          THEN Append(F[i - 1], tids[i])
          ELSE F[i - 1]
  IN F[Len(tids)]

Messages == UNION {[1..n -> TradeIds] : n \in 1..MaxMsgTrades}

InitDedup ==
  /\ processedTradeIds = <<>>
  /\ recentWhaleTrades = <<>>
  /\ pendingPriceUpdates = {}
  /\ lastKnown = {}
  /\ lastRejected = {}
  /\ lastKept = <<>>
  /\ lastEvicted = <<>>
  /\ lastTrigger = <<>>

InitMarket ==
  marketStats = [a \in Assets |-> [price |-> 0, openInterest |-> 0]]

\* whaleTracker.js:132-181 for the trades array extractTradeData returned: the filter,
\* the whale filter and the push run without an I/O suspension; with whale trades the
\* handler then suspends in storeTradeData and resumes at line 174
HandleTrades(tids) ==
  \E r \in {AdmitFilter(processedTradeIds, tids)} :
  \E whaleTrades \in {processWhaleTrades(r.kept)} :
  LET first == TradeOf(RawTrade(Head(r.kept)), 1)
  IN /\ Len(recentWhaleTrades) + Len(whaleTrades) <= MaxWhaleLog
     /\ processedTradeIds' = r.ids
     /\ lastKnown' = {t \in TradeIds : Count(t, tids) > 0 /\ Count(t, processedTradeIds) > 0}
     /\ lastRejected' = r.rejected
     /\ lastKept' = r.kept
     /\ lastEvicted' = r.evicted
     /\ lastTrigger' = r.trigger
     /\ recentWhaleTrades' = recentWhaleTrades \o whaleTrades
     /\ IF r.kept = <<>>
          THEN UNCHANGED <<pendingPriceUpdates, marketStats>>
          ELSE IF whaleTrades = <<>>
            THEN /\ marketStats' = [marketStats EXCEPT ![first.asset].price = first.price]
                 /\ UNCHANGED pendingPriceUpdates
            ELSE /\ pendingPriceUpdates' = pendingPriceUpdates \cup {first.asset}
                 /\ UNCHANGED marketStats
     /\ OnlyDedup

\* whaleTracker.js:174-180, resumed after storeTradeData and the posts
FinishHandler(asset) ==
  LET first == TradeOf(RawTrade(CHOOSE tid \in TradeIds : RawTrade(tid).coin = asset), 1)
  IN /\ asset \in pendingPriceUpdates
     /\ pendingPriceUpdates' = pendingPriceUpdates \ {asset}
     /\ marketStats' = [marketStats EXCEPT ![asset].price = first.price]
     /\ UNCHANGED <<processedTradeIds, recentWhaleTrades, lastKnown, lastKept,
                    lastRejected, lastEvicted, lastTrigger>>
     /\ OnlyDedup

\* the frames the open socket delivers: text that is not JSON ("malformed"), the JSON
\* text null, a pong, a trades message with its array of trade identifiers, a message
\* of another channel
Frames ==
  {[channel |-> c, data |-> <<>>] : c \in {"malformed", "null", "pong", "other", "trades"}}
  \cup {[channel |-> "trades", data |-> tids] : tids \in Messages}

\* hyperliquid.js:68-69: JSON.parse throws for text that is not JSON, and reading
\* .channel of null throws
ParseThrows(message) == message.channel \in {"malformed", "null"}

\* a callback that hands the pong to the handler as well
CallsForPong(message) == IF ParseThrows(message) THEN 0 ELSE 1

\* hyperliquid.js:67-78: how many times the callback calls messageHandler
HandlerCalls(message) ==
  IF ParseThrows(message) THEN 0
  ELSE IF message.channel = "pong" THEN 0
  ELSE 1

\* hyperliquid.js:66-79 and whaleTracker.js:128-186: the message callback.  A trades
\* message with trades in it ends in the handler's catch, before the filter
WsMessage(message) ==
  /\ wsReadyState = "OPEN"
  /\ log' = IF ParseThrows(message) THEN "parse-error"
            ELSE IF HandlerCalls(message) = 0 THEN log
            ELSE IF extractTradeData(message) = "ReferenceError" THEN "handler-error"
            ELSE log
  /\ lastMessage' = [channel |-> message.channel, handler |-> HandlerCalls(message)]
  /\ UNCHANGED <<wsReadyState, wsReconnectAttempts, wsHeartbeatInterval, reconnectTimers,
                 staleSockets, lastDelay, subscribed, pings>>
  /\ UNCHANGED <<dedupVars, marketStats, now, limiterVars, priceVars, trackerVars,
                 mainVars>>

NextWs ==
  \/ MainConnect
  \/ WsOpen
  \/ HeartbeatTick
  \/ WsError
  \/ \E message \in Frames : WsMessage(message)
  \/ \E stale \in BOOLEAN : WsClose(stale)
  \/ ReconnectTimer
  \/ CloseWebSocket

NextDedup ==
  \/ \E tids \in Messages : HandleTrades(tids)
  \/ \E asset \in {"BTC", "ETH"} : FinishHandler(asset)

(***************************************************************************)
(* Clock                                                                   *)
(***************************************************************************)
TickMs == PRICE_CACHE_TTL_MS \div 2

\* Date.now() when the process starts: any time later than one window after 0
StartMs == TIME_WINDOW_MS

Tick ==
  /\ now < StartMs + MaxTicks * TickMs
  /\ now' = now + TickMs

(***************************************************************************)
(* RateLimiter                                                             *)
(***************************************************************************)
\* whaleTracker.js:67 and :87: is the request at `time` still inside the window
InWindow(t, time) == t - time < TIME_WINDOW_MS

\* whaleTracker.js:67 and :87: this.requests.filter(...)
Prune(reqs, t) ==
  LET F[i \in 0..Len(reqs)] ==
        IF i = 0 THEN <<>>
        ELSE IF InWindow(t, reqs[i]) THEN Append(F[i - 1], reqs[i]) ELSE F[i - 1]
  IN F[Len(reqs)]

\* a limiter that compares with <= and so admits one request too many
HasSlotInclusive(reqs) == Len(reqs) <= MAX_REQUESTS

\* whaleTracker.js:69 and :89
HasSlot(reqs) == Len(reqs) < MAX_REQUESTS

\* the ghost record of resolve() calls: the last MAX_REQUESTS + 1 of them
Admit(adm, t) ==
  LET a == Append(adm, t)
  IN IF Len(a) > MAX_REQUESTS + 1 THEN Tail(a) ELSE a

\* whaleTracker.js:82-101: processQueue from the top of its loop at time t, up to its
\* next suspension or its end
RECURSIVE ProcessQueue(_, _, _, _)
ProcessQueue(reqs, q, adm, t) ==
  IF q = <<>>
    THEN [requests |-> reqs, queue |-> q, admissions |-> adm,
          processing |-> FALSE, wakeAt |-> -1]
    ELSE LET pruned == Prune(reqs, t)
         IN IF HasSlot(pruned)
              THEN ProcessQueue(Append(pruned, t), Tail(q), Admit(adm, t), t)
              ELSE [requests |-> pruned, queue |-> q, admissions |-> adm,
                    processing |-> TRUE,
                    wakeAt |-> t + (TIME_WINDOW_MS - (t - pruned[1]))]

InitLimiter ==
  /\ requests = <<>>
  /\ queue = <<>>
  /\ processing = FALSE
  /\ wakeAt = -1
  /\ admissions = <<>>

SetLimiter(r) ==
  /\ requests' = r.requests
  /\ queue' = r.queue
  /\ admissions' = r.admissions
  /\ processing' = r.processing
  /\ wakeAt' = r.wakeAt

\* whaleTracker.js:64-80: waitForSlot called by caller c
WaitForSlot(c) ==
  /\ \A i \in 1..Len(queue) : queue[i] # c
  /\ LET pruned == Prune(requests, now)
     IN IF HasSlot(pruned)
          THEN /\ requests' = Append(pruned, now)
               /\ admissions' = Admit(admissions, now)
               /\ UNCHANGED <<queue, processing, wakeAt>>
          ELSE IF processing
            THEN /\ requests' = pruned
                 /\ queue' = Append(queue, c)
                 /\ UNCHANGED <<admissions, processing, wakeAt>>
            ELSE SetLimiter(ProcessQueue(pruned, Append(queue, c), admissions, now))
  /\ UNCHANGED now
  /\ OnlyLimiter

\* whaleTracker.js:96-97: the timer of processQueue fires, never early
QueueTimer ==
  /\ processing
  /\ wakeAt >= 0
  /\ now >= wakeAt
  /\ SetLimiter(ProcessQueue(requests, queue, admissions, now))
  /\ UNCHANGED now
  /\ OnlyLimiter

LimiterTick ==
  /\ Tick
  /\ UNCHANGED limiterVars
  /\ OnlyLimiter

NextLimiter ==
  \/ \E c \in 1..NumCallers : WaitForSlot(c)
  \/ QueueTimer
  \/ LimiterTick

\* The limiter compares differences of times only (lines 67, 87, 94-95), so a step of
\* the clock is the same as every recorded time falling back by one step; a time that
\* has left the window stays at the edge of it.  This keeps the clock running for ever
\* in finitely many states.
\* (whaleTracker.js:96: setTimeout(resolve, waitTime))
Aged(time) == IF time - TickMs < now - TIME_WINDOW_MS THEN now - TIME_WINDOW_MS
              ELSE time - TickMs

\* the timer of processQueue is due
TimerDue == processing /\ wakeAt >= 0 /\ now >= wakeAt

\* a due timer fires within milliseconds, before the clock moves by a further step
AgeTick ==
  /\ ~TimerDue
  /\ requests' = [i \in 1..Len(requests) |-> Aged(requests[i])]
  /\ admissions' = [i \in 1..Len(admissions) |-> Aged(admissions[i])]
  /\ wakeAt' = IF wakeAt >= 0 THEN Aged(wakeAt) ELSE wakeAt
  /\ UNCHANGED <<queue, processing, now>>
  /\ OnlyLimiter

NextLimiterFair ==
  \/ \E c \in 1..NumCallers : WaitForSlot(c)
  \/ QueueTimer
  \/ AgeTick

(***************************************************************************)
(* Price cache                                                             *)
(***************************************************************************)
\* the price maps fetchRealTimePrices builds (hyperliquid.js:208-217): 0 is a missing key
PriceMaps ==
  {[a \in Assets |-> CASE a = "BTC" -> b [] a = "ETH" -> e [] OTHER -> (e * 3) \div 50] :
     b \in {0, 49000, 52000}, e \in {0, 2500}}

NoPrices == [a \in Assets |-> 0]

\* Object.keys(prices).length > 0
NonEmpty(prices) == \E a \in Assets : prices[a] # 0

\* hyperliquid.js:183
CacheFresh(t) == t - cacheLastUpdated < PRICE_CACHE_TTL_MS /\ NonEmpty(cachePrices)

\* a cache stamped with the time the response arrived
StampAtResponse(callTime, responseTime) == responseTime

\* hyperliquid.js:182 and :222: the time written to assetPriceCache.lastUpdated is the
\* Date.now() read when the call began
CacheStamp(callTime, responseTime) == callTime

InitPrices ==
  /\ cacheLastUpdated = 0
  /\ cachePrices = NoPrices
  /\ pendingFetches = {}
  /\ lastCall = [at |-> -1, network |-> FALSE, since |-> -1, cached |-> NoPrices]
  /\ lastSuccess = -1
  /\ lastReturn = NoPrices

\* hyperliquid.js:179-199: fetchRealTimePrices up to its return from the cache or its
\* suspension in fetch
CallFetchPrices ==
  /\ IF CacheFresh(now)
       THEN /\ lastReturn' = cachePrices
            /\ UNCHANGED pendingFetches
       ELSE /\ Cardinality(pendingFetches) < MaxPending
            /\ now \notin pendingFetches
            /\ pendingFetches' = pendingFetches \cup {now}
            /\ UNCHANGED lastReturn
  /\ lastCall' = [at |-> now, network |-> ~CacheFresh(now), since |-> lastSuccess,
                  cached |-> cachePrices]
  /\ UNCHANGED <<cacheLastUpdated, cachePrices, lastSuccess>>

\* what a request to the exchange brings back: ok is FALSE when fetch rejects or the
\* status is not OK, otherwise prices is the map parsed from the response
Outcomes ==
  {[ok |-> FALSE, prices |-> NoPrices]} \cup {[ok |-> TRUE, prices |-> p] : p \in PriceMaps}

\* hyperliquid.js:201-246: the call made at callTime resumes with the outcome
FetchResponds(callTime, outcome) ==
  /\ callTime \in pendingFetches
  /\ pendingFetches' = pendingFetches \ {callTime}
  /\ IF ~outcome.ok
       THEN /\ lastReturn' = IF NonEmpty(cachePrices) THEN cachePrices ELSE NoPrices
            /\ UNCHANGED <<cacheLastUpdated, cachePrices, lastSuccess>>
       ELSE IF NonEmpty(outcome.prices)
         THEN /\ cachePrices' = outcome.prices
              /\ cacheLastUpdated' = CacheStamp(callTime, now)
              /\ lastSuccess' = callTime
              /\ lastReturn' = outcome.prices
         ELSE /\ lastReturn' = NoPrices
              /\ UNCHANGED <<cacheLastUpdated, cachePrices, lastSuccess>>
  /\ UNCHANGED lastCall

PricesCall ==
  /\ CallFetchPrices
  /\ UNCHANGED now
  /\ OnlyPrices

PricesRespond ==
  /\ \E callTime \in pendingFetches, outcome \in Outcomes :
       FetchResponds(callTime, outcome)
  /\ UNCHANGED now
  /\ OnlyPrices

PricesTick ==
  /\ Tick
  /\ UNCHANGED priceVars
  /\ OnlyPrices

NextPrices ==
  \/ PricesCall
  \/ PricesRespond
  \/ PricesTick

(***************************************************************************)
(* Position tracker                                                        *)
(***************************************************************************)
\* thresholds of scanWhalePositions (whaleTracker.js:283, :316)
ALERT_NOTIONAL == 1000000
ALERT_CHANGE == 500000

Wallet == "W"

\* a rational number num / den with den > 0
Rat(num, den) == [num |-> num, den |-> den]
Zero == Rat(0, 1)

Min(a, b) == IF a < b THEN a ELSE b
Max(a, b) == IF a < b THEN b ELSE a

\* the value of a key that is not in the Map; a position has a size other than 0
NoPosition ==
  [wallet |-> Wallet, asset |-> "", size |-> 0, direction |-> "", notionalValue |-> 0,
   entryPrice |-> 0, liquidationPrice |-> 0, leverage |-> 0,
   percentOfOI |-> Zero, riskLevel |-> 0, marketImpact |-> Zero, liquidationRisk |-> Zero,
   previousSize |-> 0, sizeDelta |-> 0]

Has(tracked, asset) == tracked[asset].size # 0

\* the entries of a globalPositions response for wallet W (hyperliquid.js:285-288),
\* szi already scaled; liquidationPx 0 is a missing field.  Among them a LONG whose
\* liquidation price equals its entry price, a SHORT whose liquidation price equals
\* its entry price and a SHORT without a liquidation price
RawRows(asset) ==
  CASE asset = "BTC" ->
         {[szi |-> sz, entryPx |-> 50000, liquidationPx |-> 45000, leverage |-> 5] :
            sz \in {10, 15, 20}}
         \cup {[szi |-> -10, entryPx |-> 50000, liquidationPx |-> 55000, leverage |-> 5],
               [szi |-> 10, entryPx |-> 50000, liquidationPx |-> 50000, leverage |-> 5]}
    [] asset = "ETH" ->
         {[szi |-> sz, entryPx |-> 2500, liquidationPx |-> 0, leverage |-> 20] :
            sz \in {200, 220, 221, -221}}
         \cup {[szi |-> -200, entryPx |-> 2500, liquidationPx |-> 2500, leverage |-> 20]}
    [] OTHER ->
         {[szi |-> 10, entryPx |-> 150, liquidationPx |-> 0, leverage |-> 1]}

NoRow == [szi |-> 0, entryPx |-> 0, liquidationPx |-> 0, leverage |-> 0]

\* hyperliquid.js:291
IsWhalePosition(notionalValue) == notionalValue >= MIN_POSITION_VALUE

\* a position valued at its liquidation price
MakePositionAtLiquidation(asset, row) ==
  [wallet |-> Wallet, asset |-> asset, size |-> row.szi,
   direction |-> IF row.szi > 0 THEN "LONG" ELSE "SHORT",
   notionalValue |-> Abs(row.szi) * row.liquidationPx,
   entryPrice |-> row.entryPx, liquidationPrice |-> row.liquidationPx,
   leverage |-> row.leverage,
   percentOfOI |-> [num |-> 0, den |-> 1], riskLevel |-> 0,
   marketImpact |-> [num |-> 0, den |-> 1], liquidationRisk |-> [num |-> 0, den |-> 1],
   previousSize |-> 0, sizeDelta |-> 0]

\* hyperliquid.js:287-305: the position built from one entry of the response
MakePosition(asset, row) ==
  [NoPosition EXCEPT
     !.asset = asset,
     !.size = row.szi,
     !.direction = IF row.szi > 0 THEN "LONG" ELSE "SHORT",
     !.notionalValue = Abs(row.szi) * row.entryPx,
     !.entryPrice = row.entryPx,
     !.liquidationPrice = row.liquidationPx,
     !.leverage = row.leverage]

\* hyperliquid.js:261-310: the positions pushed for the entries reported, asset by asset;
\* rows is asset -> the entry for wallet W, or NoRow
BuildPositions(rows) ==
  LET F[i \in 0..Len(MONITORED_ASSETS)] ==
        IF i = 0 THEN <<>>
        ELSE LET asset == MONITORED_ASSETS[i]
                 position == MakePosition(asset, rows[asset])
             IN IF rows[asset] # NoRow /\ IsWhalePosition(position.notionalValue)
                  THEN Append(F[i - 1], position)
                  ELSE F[i - 1]
  IN F[Len(MONITORED_ASSETS)]

Snapshots == [Assets -> {NoRow}] \cup
  {[a \in Assets |-> CASE a = "BTC" -> b [] a = "ETH" -> e [] OTHER -> o] :
     b \in RawRows("BTC") \cup {NoRow}, e \in RawRows("ETH") \cup {NoRow},
     o \in RawRows("SOL") \cup {NoRow}}

\* ---- risk analytics ----
\* whaleTracker.js:402-406
calculatePercentOfOI(position, stats) ==
  IF stats[position.asset].openInterest = 0
    THEN Zero
    ELSE Rat(Abs(position.size) * 100, stats[position.asset].openInterest)

\* a risk level that drops the fraction instead of rounding
RiskLevelTruncated(position) ==
  LET n == position.percentOfOI.num
      d == position.percentOfOI.den
      sum == Min(position.leverage, 10) * d + 2 * Min(n, 5 * d)
  IN Min(sum \div (4 * d), 5)

\* whaleTracker.js:409-417: with pct = n/d the sum of the two risks is
\* (min(leverage, 10) * d + 2 * min(n, 5d)) / 4d, and Math.round(x) is floor(x + 1/2)
calculateRiskLevel(position) ==
  LET n == position.percentOfOI.num
      d == position.percentOfOI.den
      sum == Min(position.leverage, 10) * d + 2 * Min(n, 5 * d)
  IN Min((sum + 2 * d) \div (4 * d), 5)

\* whaleTracker.js:420-423
estimateMarketImpact(position) ==
  Rat(Min(position.percentOfOI.num * 2, 100 * position.percentOfOI.den),
      position.percentOfOI.den)

\* whaleTracker.js:426-452: 100 - (cur - liq) / cur * 100 is 100 * liq / cur, and
\* 100 - (liq - cur) / cur * 100 is 100 * (2 cur - liq) / cur
calculateLiquidationRisk(position, stats) ==
  LET cur == stats[position.asset].price
      liq == position.liquidationPrice
  IN IF liq = 0 \/ cur = 0 THEN Zero
     ELSE IF position.direction = "LONG"
       THEN IF liq >= position.entryPrice THEN Zero
            ELSE Rat(Max(0, 100 * liq), cur)
       ELSE IF liq <= position.entryPrice THEN Zero
            ELSE Rat(Max(0, 100 * (2 * cur - liq)), cur)

\* whaleTracker.js:263-266 and :296-299
Analyse(position, stats) ==
  LET p1 == [position EXCEPT !.percentOfOI = calculatePercentOfOI(position, stats)]
      p2 == [p1 EXCEPT !.riskLevel = calculateRiskLevel(p1)]
      p3 == [p2 EXCEPT !.marketImpact = estimateMarketImpact(p2)]
  IN [p3 EXCEPT !.liquidationRisk = calculateLiquidationRisk(p3, stats)]

\* whaleTracker.js:269-275 and :302-308: is the warning about the liquidation price logged
InvalidLiquidation(position) ==
  /\ position.liquidationPrice # 0
  /\ position.entryPrice # 0
  /\ \/ position.direction = "LONG" /\ position.liquidationPrice >= position.entryPrice
     \/ position.direction = "SHORT" /\ position.liquidationPrice <= position.entryPrice

\* ---- what a cycle did for one key ----
NoEvent ==
  [type |-> "none", size |-> 0, direction |-> "", entryPrice |-> 0,
   previousSize |-> 0, sizeDelta |-> 0, exitPrice |-> 0,
   finalPnl |-> 0, hasPnl |-> FALSE, stored |-> FALSE, alerted |-> FALSE, warned |-> FALSE,
   post |-> "none"]

\* ---- publication ----
\* what the publisher does with one alert: the tweet is accepted and the webhook
\* answers, the tweet call rejects, the tweet is answered by a rate-limit error, the
\* webhook is down
PostOutcomes == {"ok", "tweet-rejects", "rate-limit", "webhook-down"}

\* the publisher of one cycle, per key: at most one publication of the cycle fails
Publishers ==
  {[a \in Assets |-> IF a = failing THEN kind ELSE "ok"] :
     failing \in Assets, kind \in PostOutcomes}

\* src/utils/notify.js:3-30: the webhook call is inside a try whose catch logs; a
\* response that is not ok is logged; the promise never rejects
notifyDiscord(outcome) ==
  [log |-> IF outcome = "webhook-down" THEN "webhook-error" ELSE "sent", throws |-> FALSE]

\* a post function that logs the failure and throws it again
PostRethrows(outcome) ==
  IF outcome \in {"tweet-rejects", "rate-limit"}
    THEN [post |-> "tweet-error", throws |-> TRUE]
    ELSE [post |-> notifyDiscord(outcome).log, throws |-> FALSE]

\* whaleTracker.js:588-636: postPositionToTwitter, postPositionUpdateToTwitter and
\* postPositionClosureToTwitter have the same body: everything is inside one try whose
\* catch logs; the webhook call is not awaited and has its own catch
PostAttempt(outcome) ==
  IF outcome \in {"tweet-rejects", "rate-limit"}
    THEN [post |-> "tweet-error", throws |-> FALSE]
    ELSE [post |-> notifyDiscord(outcome).log, throws |-> notifyDiscord(outcome).throws]

\* the event of a key after its alert decision: the post is attempted only for an alert
Published(event, outcome) ==
  IF event.alerted THEN [event EXCEPT !.post = PostAttempt(outcome).post] ELSE event

\* does the await of the post function throw into the loop
PostThrows(event, outcome) == event.alerted /\ PostAttempt(outcome).throws

\* whaleTracker.js:288
SizeDelta(size, existingSize) == Abs(size) - Abs(existingSize)

\* a threshold that a change of exactly 10% passes
AtOrOverUpdateThreshold(sizeDelta, existingSize) == 10 * Abs(sizeDelta) >= Abs(existingSize)

\* whaleTracker.js:290: Math.abs(sizeDelta) / Math.abs(existingPosition.size) > 0.1
OverUpdateThreshold(sizeDelta, existingSize) == 10 * Abs(sizeDelta) > Abs(existingSize)

\* a tracker that alerts for every whale position
AlertsEveryWhale(notionalValue) == Abs(notionalValue) >= MIN_POSITION_VALUE

\* whaleTracker.js:283: is the new-position alert posted
AlertsNew(notionalValue) == Abs(notionalValue) >= ALERT_NOTIONAL

\* a tracker that alerts for every update of a position over the alert notional
AlertsLargeUpdate(notionalValue, sizeDelta, price) ==
  Abs(notionalValue) >= ALERT_NOTIONAL

\* whaleTracker.js:316: is the update alert posted
AlertsUpdate(notionalValue, sizeDelta, price) ==
  /\ Abs(notionalValue) >= ALERT_NOTIONAL
  /\ Abs(sizeDelta) * price >= ALERT_CHANGE

\* whaleTracker.js:256-321: the loop body for one position of the snapshot;
\* st = [tracked, events, publisher, aborted]; aborted: an exception has left the loop
ProcessPosition(st, position, stats) ==
  LET asset == position.asset
      existing == st.tracked[asset]
      sizeDelta == SizeDelta(position.size, existing.size)
      outcome == st.publisher[asset]
  IN IF st.aborted THEN st
     ELSE IF ~Has(st.tracked, asset)
       THEN LET analysed == Analyse(position, stats)
                event == [NoEvent EXCEPT !.type = "new", !.size = position.size,
                                         !.stored = TRUE,
                                         !.alerted = AlertsNew(position.notionalValue),
                                         !.warned = InvalidLiquidation(position)]
            IN [st EXCEPT !.tracked = [st.tracked EXCEPT ![asset] = analysed],
                          !.events  = [st.events EXCEPT ![asset] = Published(event, outcome)],
                          !.aborted = PostThrows(event, outcome)]
       ELSE IF OverUpdateThreshold(sizeDelta, existing.size)
         THEN LET analysed == Analyse([position EXCEPT !.previousSize = existing.size,
                                                       !.sizeDelta = sizeDelta], stats)
                  event == [NoEvent EXCEPT !.type = "updated", !.size = position.size,
                                           !.previousSize = existing.size,
                                           !.sizeDelta = sizeDelta,
                                           !.stored = TRUE,
                                           !.alerted =
                                              AlertsUpdate(position.notionalValue, sizeDelta,
                                                           stats[asset].price),
                                           !.warned = InvalidLiquidation(position)]
              IN [st EXCEPT !.tracked = [st.tracked EXCEPT ![asset] = analysed],
                            !.events  = [st.events EXCEPT ![asset] = Published(event, outcome)],
                            !.aborted = PostThrows(event, outcome)]
         ELSE [st EXCEPT !.events = [st.events EXCEPT ![asset] =
                              [NoEvent EXCEPT !.type = "unchanged", !.size = position.size]]]

RECURSIVE ProcessAll(_, _, _)
ProcessAll(st, positions, stats) ==
  IF positions = <<>> THEN st
  ELSE ProcessAll(ProcessPosition(st, Head(positions), stats), Tail(positions), stats)

\* a PnL that takes every position for a LONG
PnlAsLong(position, exitPrice) ==
  (exitPrice - position.entryPrice) * Abs(position.size)

\* whaleTracker.js:335-337
PnlAmount(position, exitPrice) ==
  IF position.direction = "LONG"
    THEN (exitPrice - position.entryPrice) * Abs(position.size)
    ELSE (position.entryPrice - exitPrice) * Abs(position.size)

\* whaleTracker.js:333: is the realised PnL computed and the closed record stored
HasExitPrice(position, stats) ==
  position.entryPrice # 0 /\ stats[position.asset].price # 0

\* a closure that leaves the key in the Map
KeptAfterClose(tracked, asset) == tracked

\* whaleTracker.js:352: trackedPositions.delete(positionKey)
DeleteKey(tracked, asset) == [tracked EXCEPT ![asset] = NoPosition]

\* whaleTracker.js:325-353: the loop body for one tracked key missing from the snapshot
ClosePosition(st, asset, stats) ==
  LET position == st.tracked[asset]
      exitPrice == stats[asset].price
      outcome == st.publisher[asset]
      event == IF HasExitPrice(position, stats)
                 THEN [NoEvent EXCEPT !.type = "closed", !.size = position.size,
                                      !.direction = position.direction,
                                      !.entryPrice = position.entryPrice,
                                      !.exitPrice = exitPrice,
                                      !.finalPnl = PnlAmount(position, exitPrice),
                                      !.hasPnl = TRUE,
                                      !.stored = TRUE,
                                      !.alerted = Abs(position.notionalValue) >= ALERT_NOTIONAL]
                 ELSE [NoEvent EXCEPT !.type = "closed", !.size = position.size]
  IN IF st.aborted THEN st
     ELSE [st EXCEPT !.tracked = IF PostThrows(event, outcome) THEN st.tracked
                                 ELSE DeleteKey(st.tracked, asset),
                     !.events  = [st.events EXCEPT ![asset] = Published(event, outcome)],
                     !.aborted = PostThrows(event, outcome)]

\* whaleTracker.js:323
CurrentPositionKeys(positions) == {positions[i].asset : i \in 1..Len(positions)}

\* whaleTracker.js:323-354: the tracked keys missing from the snapshot, closed one by one
CloseMissing(st, positions, stats) ==
  LET keys == CurrentPositionKeys(positions)
      F[i \in 0..Len(MONITORED_ASSETS)] ==
        IF i = 0 THEN st
        ELSE LET asset == MONITORED_ASSETS[i]
             IN IF Has(F[i - 1].tracked, asset) /\ asset \notin keys
                  THEN ClosePosition(F[i - 1], asset, stats)
                  ELSE F[i - 1]
  IN F[Len(MONITORED_ASSETS)]

NoEvents == [a \in Assets |-> NoEvent]

\* whaleTracker.js:254-354: the two loops over the snapshot and over the Map
Reconcile(tracked, positions, stats, publisher) ==
  CloseMissing(ProcessAll([tracked |-> tracked, events |-> NoEvents,
                           publisher |-> publisher, aborted |-> FALSE], positions, stats),
               positions, stats)

\* the publishers a cycle can meet: an outcome exists only for a publication that is
\* attempted, i.e. for a key whose alert is decided in this cycle
PublishersOf(tracked, positions, stats) ==
  UNION {{publisher \in Publishers :
            \A a \in Assets : publisher[a] # "ok" => quiet.events[a].alerted} :
         quiet \in {Reconcile(tracked, positions, stats, [a \in Assets |-> "ok"])}}

InitTracker ==
  /\ trackedPositions = [a \in Assets |-> NoPosition]
  /\ scanPc = "idle"
  /\ scanCall = -1
  /\ scanPrices = NoPrices
  /\ currentPositions = <<>>
  /\ events = NoEvents
  /\ scanLog = "none"
  /\ scenario = 0

\* ---- market statistics ----
\* whaleTracker.js:106-118: the index of each asset in the exchange's universe
assetIndices == [a \in Assets |-> CASE a = "BTC" -> 0 [] a = "ETH" -> 1 [] OTHER -> 2]

\* whaleTracker.js:379: assetIndices[asset] || -1
AssetIndexOr(asset) == IF assetIndices[asset] = 0 THEN -1 ELSE assetIndices[asset]

\* what fetchMetaAndAssetCtxs returns (hyperliquid.js:340-377): null, or the contexts,
\* here the open interest by index in the universe (0 is a missing field)
NoMeta == [ok |-> FALSE, openInterest |-> <<0, 0, 0>>]
Metas == {NoMeta, [ok |-> TRUE, openInterest |-> <<1000, 1000, 0>>]}

\* whaleTracker.js:367-389
updateMarketStats(stats, prices, metaData) ==
  [asset \in Assets |->
     [price |-> IF prices[asset] # 0 THEN prices[asset] ELSE stats[asset].price,
      openInterest |->
        LET assetIndex == AssetIndexOr(asset)
        IN IF /\ metaData.ok
              /\ assetIndex >= 0
              /\ assetIndex < Len(metaData.openInterest)
              /\ metaData.openInterest[assetIndex + 1] # 0
             THEN metaData.openInterest[assetIndex + 1]
             ELSE stats[asset].openInterest]]

\* ---- the positions of a cycle ----
\* what one globalPositions request brings back (hyperliquid.js:262-280): a rejected
\* request or a status that is not OK, a body that is not an array, an array
ResponseKinds == {"http-error", "not-array", "array"}

AllArrays == [a \in Assets |-> "array"]

\* the entries reported when every monitored asset has a whale position
FullRows ==
  [a \in Assets |->
     CASE a = "BTC" -> [szi |-> 10, entryPx |-> 50000, liquidationPx |-> 45000,
                        leverage |-> 5]
       [] a = "ETH" -> [szi |-> 200, entryPx |-> 2500, liquidationPx |-> 0,
                        leverage |-> 20]
       [] OTHER -> [szi |-> 100, entryPx |-> 150, liquidationPx |-> 0, leverage |-> 1]]

\* what the globalPositions requests of one call bring back, asset by asset
Responses ==
  {[kinds |-> AllArrays, rows |-> rows] : rows \in Snapshots}
  \cup {[kinds |-> kinds, rows |-> FullRows] : kinds \in [Assets -> ResponseKinds]}

\* hyperliquid.js:261-316: the first monitored asset whose request throws, 0 if none
\* does; an array throws too, because hyperliquid.js declares no assetIndices and
\* reading it at line 282 is a ReferenceError
FirstThrow(kinds) ==
  LET throwing == {i \in 1..Len(MONITORED_ASSETS) : kinds[MONITORED_ASSETS[i]] # "not-array"}
  IN IF throwing = {} THEN 0
     ELSE CHOOSE i \in throwing : \A j \in throwing : i <= j

\* hyperliquid.js:250-317: any throw inside the loop lands in the one catch around it,
\* which returns [] whatever was pushed before
fetchActivePositions(metaData, response) ==
  LET i == FirstThrow(response.kinds)
  IN IF ~metaData.ok
       THEN [positions |-> <<>>, error |-> "Failed to fetch asset contexts"]
     ELSE IF i = 0
       THEN [positions |-> <<>>, error |-> "none"]
     ELSE IF response.kinds[MONITORED_ASSETS[i]] = "http-error"
       THEN [positions |-> <<>>, error |-> "API"]
       ELSE [positions |-> <<>>, error |-> "ReferenceError"]

\* the lifecycle of one key over three cycles in a row: the exchange reports
\* (W, BTC) of size 10 entered at 50000 while the key is untracked, then size 15, then
\* nothing
ScenarioStep(stage, tracked, rows) ==
  IF rows["BTC"].szi = 10 /\ rows["BTC"].entryPx = 50000 /\ ~Has(tracked, "BTC") THEN 1
  ELSE IF stage = 1 /\ rows["BTC"].szi = 15 THEN 2
  ELSE IF stage = 2 /\ rows["BTC"] = NoRow THEN 3
  ELSE 0

\* whaleTracker.js:254-354
ScanReconcile(publisher) ==
  /\ scanPc = "reconcile"
  /\ \E st \in {Reconcile(trackedPositions, currentPositions, marketStats, publisher)} :
       /\ trackedPositions' = st.tracked
       /\ events' = st.events
       /\ scanLog' = IF st.aborted THEN "scan-rejected" ELSE scanLog
  /\ currentPositions' = <<>>
  /\ scanPc' = "idle"
  /\ UNCHANGED <<scanCall, scanPrices, scenario, marketStats, now, priceVars>>
  /\ OnlyTracker

\* ---- the reconciliation on its own: the market and the snapshot are given ----
\* whaleTracker.js:191
TrackerMarket(prices, metaData) ==
  /\ scanPc = "idle"
  /\ marketStats' = updateMarketStats(marketStats, prices, metaData)
  /\ events' = NoEvents
  /\ scanLog' = "none"
  /\ scanPc' = "positions"
  /\ UNCHANGED <<trackedPositions, scanCall, scanPrices, currentPositions,
                 scenario, now, priceVars>>
  /\ OnlyTracker

\* whaleTracker.js:245-252 with the positions hyperliquid.js:285-308 builds
TrackerSnapshot(rows) ==
  /\ scanPc = "positions"
  /\ currentPositions' = BuildPositions(rows)
  /\ scenario' = ScenarioStep(scenario, trackedPositions, rows)
  /\ scanPc' = "reconcile"
  /\ UNCHANGED <<trackedPositions, scanCall, scanPrices, events, scanLog,
                 marketStats, now, priceVars>>
  /\ OnlyTracker

\* hyperliquid.js:272-275 and :313-316, whaleTracker.js:245-252: a request of the
\* snapshot is answered by an HTTP error; fetchActivePositions logs it and returns []
TrackerSnapshotFails ==
  /\ scanPc = "positions"
  /\ currentPositions' = <<>>
  /\ scanLog' = "API"
  /\ scenario' = 0
  /\ scanPc' = "reconcile"
  /\ UNCHANGED <<trackedPositions, scanCall, scanPrices, events,
                 marketStats, now, priceVars>>
  /\ OnlyTracker

NextTracker ==
  \/ \E prices \in PriceMaps, metaData \in Metas : TrackerMarket(prices, metaData)
  \/ \E rows \in Snapshots : TrackerSnapshot(rows)
  \/ TrackerSnapshotFails
  \/ /\ scanPc = "reconcile"
     /\ \E publisher \in PublishersOf(trackedPositions, currentPositions, marketStats) :
          ScanReconcile(publisher)

\* ---- the whole cycle ----
\* whaleTracker.js:188-191, :361 and hyperliquid.js:182-199
ScanStart ==
  /\ scanPc = "idle"
  /\ CallFetchPrices
  /\ events' = NoEvents
  /\ scanLog' = "none"
  /\ IF CacheFresh(now)
       THEN scanPrices' = cachePrices /\ scanPc' = "meta" /\ UNCHANGED scanCall
       ELSE scanCall' = now /\ scanPc' = "prices" /\ UNCHANGED scanPrices
  /\ UNCHANGED <<trackedPositions, currentPositions, scenario, marketStats, now>>
  /\ OnlyTracker

\* hyperliquid.js:201-246
ScanPricesBack(outcome) ==
  /\ scanPc = "prices"
  /\ FetchResponds(scanCall, outcome)
  /\ scanPrices' = lastReturn'
  /\ scanPc' = "meta"
  /\ UNCHANGED <<trackedPositions, scanCall, currentPositions, events, scanLog, scenario,
                 marketStats, now>>
  /\ OnlyTracker

\* whaleTracker.js:364-389
ScanMetaBack(metaData) ==
  /\ scanPc = "meta"
  /\ marketStats' = updateMarketStats(marketStats, scanPrices, metaData)
  /\ scanPc' = "positions"
  /\ UNCHANGED <<trackedPositions, scanCall, scanPrices, currentPositions, events, scanLog,
                 scenario, now, priceVars>>
  /\ OnlyTracker

\* whaleTracker.js:245-252
ScanPositionsBack(metaData, response) ==
  /\ scanPc = "positions"
  /\ LET got == fetchActivePositions(metaData, response)
     IN /\ currentPositions' = got.positions
        /\ scanLog' = got.error
  /\ scenario' = IF metaData.ok /\ response.kinds = AllArrays
                   THEN ScenarioStep(scenario, trackedPositions, response.rows)
                   ELSE 0
  /\ scanPc' = "reconcile"
  /\ UNCHANGED <<trackedPositions, scanCall, scanPrices, events, marketStats, now,
                 priceVars>>
  /\ OnlyTracker

ScanTick ==
  /\ Tick
  /\ UNCHANGED <<trackerVars, marketStats, priceVars>>
  /\ OnlyTracker

NextScan ==
  \/ ScanStart
  \/ \E outcome \in Outcomes : ScanPricesBack(outcome)
  \/ \E metaData \in Metas : ScanMetaBack(metaData)
  \/ \E metaData \in Metas, response \in Responses : ScanPositionsBack(metaData, response)
  \/ /\ scanPc = "reconcile"
     /\ \E publisher \in PublishersOf(trackedPositions, currentPositions, marketStats) :
          ScanReconcile(publisher)
  \/ ScanTick

(***************************************************************************)
(* The process: main, the scan timer and the shutdown signal               *)
(***************************************************************************)
InitMain ==
  /\ mainPc = "start"
  /\ scans = <<>>
  /\ exited = FALSE
  /\ aborted = 0
  /\ closeCalled = FALSE

\* whaleTracker.js:188-191: a call of scanWhalePositions runs up to its first await
StartScan(running) == Append(running, "market")

\* whaleTracker.js:747-777: main up to `await scanWhalePositions()`
MainInitialScan ==
  /\ ~exited
  /\ mainPc = "start"
  /\ mainPc' = "initial-scan"
  /\ scans' = StartScan(scans)
  /\ UNCHANGED <<exited, aborted, closeCalled>>
  /\ UNCHANGED <<wsVars, dedupVars, marketStats, now, limiterVars, priceVars, trackerVars,
                 lastMessage>>

\* the executions left when execution i returns
Finish(running, i) == SubSeq(running, 1, i - 1) \o SubSeq(running, i + 1, Len(running))

\* whaleTracker.js:191-355: execution i resumes from updateMarketStats and suspends in
\* fetchActivePositions, or resumes from fetchActivePositions and returns (the two
\* loops await only for the positions they store, post or close)
ScanResumes(i) ==
  /\ ~exited
  /\ i \in 1..Len(scans)
  /\ mainPc = "initial-scan" => scans[i] = "market"
  /\ scans' = IF scans[i] = "market"
                THEN [scans EXCEPT ![i] = "positions"]
                ELSE Finish(scans, i)
  /\ UNCHANGED <<mainPc, exited, aborted, closeCalled>>
  /\ UNCHANGED <<wsVars, dedupVars, marketStats, now, limiterVars, priceVars, trackerVars,
                 lastMessage>>

\* whaleTracker.js:777-791: the initial scan returns and main goes on: it connects the
\* stream and sets the interval
MainSetup ==
  /\ ~exited
  /\ mainPc = "initial-scan"
  /\ scans = <<"positions">>
  /\ scans' = <<>>
  /\ mainPc' = "running"
  /\ connectWebSocket
  /\ UNCHANGED <<wsReconnectAttempts, wsHeartbeatInterval, reconnectTimers, lastDelay, log>>
  /\ UNCHANGED <<exited, aborted, closeCalled>>
  /\ UNCHANGED <<dedupVars, marketStats, now, limiterVars, priceVars, trackerVars,
                 lastMessage>>

\* whaleTracker.js:787: the interval fires and calls scanWhalePositions
IntervalFires ==
  /\ ~exited
  /\ mainPc = "running"
  /\ Len(scans) < MaxScans
  /\ scans' = StartScan(scans)
  /\ UNCHANGED <<mainPc, exited, aborted, closeCalled>>
  /\ UNCHANGED <<wsVars, dedupVars, marketStats, now, limiterVars, priceVars, trackerVars,
                 lastMessage>>

\* whaleTracker.js:719-733: SIGINT or SIGTERM: closeWebSocket, then process.exit(0) in
\* the same call
handleShutdown ==
  /\ ~exited
  /\ closeWebSocket
  /\ exited' = TRUE
  /\ aborted' = Len(scans)
  /\ UNCHANGED <<mainPc, scans>>
  /\ UNCHANGED <<dedupVars, marketStats, now, limiterVars, priceVars, trackerVars,
                 lastMessage>>

\* the callbacks of the stream client while the process runs
StreamStep ==
  /\ ~exited
  /\ \/ WsOpen
     \/ HeartbeatTick
     \/ WsError
     \/ \E message \in Frames : WsMessage(message)
     \/ \E stale \in BOOLEAN : WsClose(stale)
     \/ ReconnectTimer

NextMain ==
  \/ MainInitialScan
  \/ \E i \in 1..MaxScans : ScanResumes(i)
  \/ MainSetup
  \/ IntervalFires
  \/ handleShutdown
  \/ StreamStep

Init == InitWs /\ InitDedup /\ InitMarket /\ now = StartMs /\ InitLimiter /\ InitPrices
        /\ InitTracker /\ InitMain

SpecLimiter == Init /\ [][NextLimiter]_vars

\* the limiter with a clock that never stops and a timer that fires once it is due
SpecLimiterFair ==
  /\ Init
  /\ [][NextLimiterFair]_vars
  /\ WF_vars(AgeTick)
  /\ WF_vars(QueueTimer)

SpecPrices == Init /\ [][NextPrices]_vars

SpecWs == Init /\ [][NextWs]_vars

SpecDedup == Init /\ [][NextDedup]_vars

SpecTracker == Init /\ [][NextTracker]_vars

SpecScan == Init /\ [][NextScan]_vars

SpecMain == Init /\ [][NextMain]_vars

\* ---- the analytics on their own: one cycle over a snapshot of one position ----
\* the entries analysed: LONG and SHORT, with and without a liquidation price, on
\* either side of the entry price
AnalysedRows ==
  {[szi |-> sz, entryPx |-> 50000, liquidationPx |-> lq, leverage |-> lv] :
     sz \in {-600, -24, 10, 24, 26, 50, 500, 600},
     lq \in {0, 45000, 50000, 55000},
     lv \in 1..MaxLeverage}

\* market prices below, between and above the liquidation prices; 0: never priced
AnalysedPrices == {0, 20000, 40000, 49000, 52000, 60000}

\* open interest of the asset; 0: unknown
AnalysedOpenInterests == {0, 1000, 2000}

\* whaleTracker.js:254: the cycle has its market statistics and its snapshot, and
\* nothing is tracked yet
InitAnalytics ==
  /\ InitWs /\ InitDedup /\ now = StartMs /\ InitLimiter /\ InitPrices /\ InitMain
  /\ trackedPositions = [a \in Assets |-> NoPosition]
  /\ scanPc = "reconcile"
  /\ scanCall = -1
  /\ scanPrices = NoPrices
  /\ events = NoEvents
  /\ scanLog = "none"
  /\ scenario = 0
  /\ \E row \in AnalysedRows, price \in AnalysedPrices, oi \in AnalysedOpenInterests :
       /\ marketStats = [a \in Assets |->
                           IF a = "ETH" THEN [price |-> price, openInterest |-> oi]
                           ELSE [price |-> 0, openInterest |-> 0]]
       /\ currentPositions = <<MakePosition("ETH", row)>>

NextAnalytics ==
  /\ scanPc = "reconcile"
  /\ \E publisher \in PublishersOf(trackedPositions, currentPositions, marketStats) :
       ScanReconcile(publisher)

SpecAnalytics == InitAnalytics /\ [][NextAnalytics]_vars

(***************************************************************************)
(* Properties of the deduplicator                                          *)
(***************************************************************************)
\* the identifiers of the last message, other than a missing one
LastSeen == {lastKept[i] : i \in 1..Len(lastKept)} \cup (lastRejected \ {0})

\* C1: over one message, an identifier that was recorded before the message is kept
\* only as often as it is evicted, one that was not is kept once more than that, and
\* an occurrence is rejected only when the identifier was recorded or kept before it;
\* so between its first sight and its eviction it is kept exactly once, and what is
\* kept and not evicted is recorded, once
C1_AdmittedOnce ==
  \A t \in LastSeen :
    LET before == IF t \in lastKnown THEN 1 ELSE 0
        kept == Count(t, lastKept)
        evicted == Count(t, lastEvicted)
    IN /\ kept <= (1 - before) + evicted
       /\ before = 0 => kept >= 1
       /\ evicted = 0 => kept = 1 - before
       /\ t \in lastRejected => before = 1 \/ kept >= 1
       /\ Count(t, processedTradeIds) = before + kept - evicted
       /\ Count(t, processedTradeIds) <= 1

\* a message carried the same new identifier twice: it was kept once and rejected once
C1_Witness ==
  /\ lastKnown = {}
  /\ lastKept = <<2>>
  /\ lastRejected = {2}
  /\ processedTradeIds = <<2>>

\* C2: after every message processedTradeIds holds at most MAX_CACHED_TRADE_IDS
\* identifiers, and an eviction happens in the filter call of a trade that is kept
C2_BoundedDedup ==
  /\ Len(processedTradeIds) <= MAX_CACHED_TRADE_IDS
  /\ lastEvicted # <<>> =>
       /\ lastTrigger # <<>>
       /\ Count(lastTrigger[1], lastKept) >= 1
       /\ lastTrigger[1] \notin lastKnown \/ Count(lastTrigger[1], lastEvicted) >= 1

\* the set is full after a message whose trade evicted and was kept
C2_Witness ==
  /\ Len(processedTradeIds) = MAX_CACHED_TRADE_IDS
  /\ lastEvicted # <<>>
  /\ Count(lastTrigger[1], lastKept) = 1
  /\ Count(lastTrigger[1], processedTradeIds) = 1

(***************************************************************************)
(* Properties of the rate limiter                                          *)
(***************************************************************************)
\* five admissions lie inside the window that ends now
FullWindow ==
  /\ Len(admissions) >= 5
  /\ now - admissions[Len(admissions) - 4] < 60000

C9_Window == Len(admissions) = 6 => admissions[6] - admissions[1] >= 60000

C9_Step ==
  /\ (\E c \in 1..NumCallers : WaitForSlot(c)) /\ FullWindow =>
       /\ admissions' = admissions
       /\ Len(queue') = Len(queue) + 1
  /\ admissions' # admissions => ~FullWindow

\* C9: any six admissions in a row span at least 60 s, so no 60 s window holds more
\* than five; a request that arrives while five admissions lie inside the window is
\* queued, and nothing is admitted while they lie inside it
C9_RateLimit == []C9_Window /\ [][C9_Step]_vars

\* the sixth request was held back and admitted when the first left the window
C9_Witness ==
  /\ Len(admissions) = 6
  /\ admissions[5] = admissions[1]
  /\ admissions[6] = admissions[1] + 60000

(***************************************************************************)
(* Properties of the price cache                                           *)
(***************************************************************************)
\* what C10 asks of every step
C10_Step ==
  PricesCall /\ lastSuccess >= 0 =>
    IF now - lastSuccess < 30000
      THEN /\ pendingFetches' = pendingFetches
           /\ lastReturn' = cachePrices
           /\ NonEmpty(cachePrices)
      ELSE pendingFetches' = pendingFetches \cup {now} /\ now \notin pendingFetches

C10_WitnessExpired ==
  /\ lastCall.since >= 0
  /\ lastCall.at - lastCall.since = 30000
  /\ lastCall.network

\* the call made at callTime resumes with an outcome that yields no prices
FailsToYield(callTime, outcome) ==
  /\ FetchResponds(callTime, outcome)
  /\ ~(outcome.ok /\ NonEmpty(outcome.prices))

\* what C11 asks of every step
C11_Step ==
  \A callTime \in pendingFetches, outcome \in Outcomes :
    FailsToYield(callTime, outcome) =>
      /\ NonEmpty(cachePrices) => lastReturn' = cachePrices
      /\ lastReturn' = NoPrices => ~NonEmpty(cachePrices)
      /\ UNCHANGED <<cachePrices, cacheLastUpdated>>

\* C11: a fetch that fails to yield prices (a rejected request, a status that is not
\* OK, a response without a usable price) returns the cached prices when the cache
\* holds any, returns the empty result only when it holds none, and leaves the cache
\* as it was
C11_PriceFallback == [][C11_Step]_vars

\* the part of C11 about a rejected request or a status that is not OK
C11_ErrorStep ==
  \A callTime \in pendingFetches :
    FetchResponds(callTime, [ok |-> FALSE, prices |-> NoPrices]) =>
      /\ lastReturn' = cachePrices
      /\ UNCHANGED <<cachePrices, cacheLastUpdated>>

C11_ErrorFallback == [][C11_ErrorStep]_vars

(***************************************************************************)
(* Properties of the position tracker                                      *)
(***************************************************************************)
\* C3: a tracked key reported again is updated if and only if
\* |size_now - size_prev| / |size_prev| > 0.1, the sizes being signed
C3_UpdateThreshold ==
  scanPc = "idle" =>
    \A a \in Assets :
      /\ events[a].type = "updated" =>
           10 * Abs(events[a].size - events[a].previousSize) > Abs(events[a].previousSize)
      /\ events[a].type = "unchanged" =>
           10 * Abs(events[a].size - trackedPositions[a].size)
             <= Abs(trackedPositions[a].size)

\* C4: when three cycles in a row are told (W, BTC) of size 10 entered at 50000, then
\* size 15, then nothing, the first tracks the key as new, the second updates it with
\* sizeDelta 5, the third closes it with the PnL against the BTC price of marketStats
\* and leaves the key untracked
C4_Lifecycle ==
  scanPc = "idle" =>
    /\ scenario = 1 =>
         /\ events["BTC"].type = "new"
         /\ trackedPositions["BTC"].size = 10
         /\ trackedPositions["BTC"].entryPrice = 50000
    /\ scenario = 2 =>
         /\ events["BTC"].type = "updated"
         /\ events["BTC"].sizeDelta = 5
         /\ trackedPositions["BTC"].size = 15
    /\ scenario = 3 =>
         /\ events["BTC"].type = "closed"
         /\ ~Has(trackedPositions, "BTC")
         /\ marketStats["BTC"].price # 0 =>
              /\ events["BTC"].hasPnl
              /\ events["BTC"].exitPrice = marketStats["BTC"].price
              /\ events["BTC"].finalPnl = (marketStats["BTC"].price - 50000) * 15

\* C5: a closure with an exit price gives finalPnl = (exit - entry) * |size| for a LONG
\* and (entry - exit) * |size| for a SHORT, the exit price being the price of
\* marketStats; LONG 10 from 100 to 120 and SHORT 10 from 120 to 100 both give 200
C5_ClosedPnl ==
  /\ PnlAmount([direction |-> "LONG", size |-> 10, entryPrice |-> 100], 120) = 200
  /\ PnlAmount([direction |-> "SHORT", size |-> -10, entryPrice |-> 120], 100) = 200
  /\ scanPc = "idle" =>
       \A a \in Assets : events[a].type = "closed" /\ events[a].hasPnl =>
         /\ events[a].exitPrice = marketStats[a].price
         /\ events[a].direction = "LONG" =>
              events[a].finalPnl
                = (events[a].exitPrice - events[a].entryPrice) * Abs(events[a].size)
         /\ events[a].direction = "SHORT" =>
              events[a].finalPnl
                = (events[a].entryPrice - events[a].exitPrice) * Abs(events[a].size)

\* a SHORT of 10 BTC entered at 50000 was closed at 49000 with a gain of 10000
C5_Witness ==
  /\ scanPc = "idle"
  /\ events["BTC"].type = "closed"
  /\ events["BTC"].direction = "SHORT"
  /\ events["BTC"].exitPrice = 49000
  /\ events["BTC"].finalPnl = 10000

\* the liquidation price of the position is on the wrong side of its entry price
WrongSide(position) ==
  \/ position.direction = "LONG" /\ position.liquidationPrice >= position.entryPrice
  \/ position.direction = "SHORT" /\ position.liquidationPrice <= position.entryPrice

\* the reconciliation loop runs in this step
ReconcilesNow == scanPc = "reconcile" /\ scanPc' = "idle"

\* every position of the snapshot was handled, and one that was analysed and is on the
\* wrong side by the test `wrong` has risk 0, a warning and its place in the Map
C12_Handled(position, wrong) ==
  LET a == position.asset
  IN /\ events'[a].type \in {"new", "updated", "unchanged"}
     /\ events'[a].type \in {"new", "updated"} /\ wrong =>
          /\ trackedPositions'[a].liquidationRisk = Zero
          /\ events'[a].warned
          /\ trackedPositions'[a].size = position.size
          /\ trackedPositions'[a].liquidationPrice = position.liquidationPrice

\* what C12 asks of every step
C12_Step ==
  ReconcilesNow =>
    \A i \in 1..Len(currentPositions) :
      C12_Handled(currentPositions[i], WrongSide(currentPositions[i]))

\* C12: every position the cycle analyses (new or updated) that is a LONG with
\* liquidationPrice >= entryPrice or a SHORT with liquidationPrice <= entryPrice gets
\* liquidationRisk 0 and a warning, is tracked all the same, and every other position
\* of the snapshot is still handled in the cycle
C12_LiquidationInvariant == [][C12_Step]_vars

\* the same for the positions that carry a liquidation price
C12_PresentStep ==
  ReconcilesNow =>
    \A i \in 1..Len(currentPositions) :
      C12_Handled(currentPositions[i],
                  WrongSide(currentPositions[i]) /\ currentPositions[i].liquidationPrice # 0)

C12_PresentLiquidation == [][C12_PresentStep]_vars

\* a LONG whose liquidation price is its entry price is tracked with a warning
C12_Witness ==
  /\ scanPc = "idle"
  /\ events["BTC"].type = "new"
  /\ events["BTC"].warned
  /\ trackedPositions["BTC"].liquidationPrice = 50000
  /\ trackedPositions["BTC"].liquidationRisk = Zero
  /\ marketStats["BTC"].price # 0
  /\ events["ETH"].type = "new"

\* notionalValue = |size| * entryPrice
NotionalOf(position) == position.notionalValue = Abs(position.size) * position.entryPrice

\* C13: every position of the snapshot and every position held in trackedPositions has
\* notionalValue = |size| * entryPrice
C13_Notional ==
  /\ \A i \in 1..Len(currentPositions) : NotionalOf(currentPositions[i])
  /\ \A a \in Assets : Has(trackedPositions, a) => NotionalOf(trackedPositions[a])

\* a SHORT of 10 BTC worth 500000 is tracked while the next snapshot holds a SHORT of
\* 221 ETH worth 552500
C13_Witness ==
  /\ trackedPositions["BTC"].size = -10
  /\ trackedPositions["BTC"].notionalValue = 500000
  /\ \E i \in 1..Len(currentPositions) :
       /\ currentPositions[i].size = -221
       /\ currentPositions[i].notionalValue = 552500

\* the response reports a whale position for the asset
ReportsWhale(response, a) ==
  /\ response.kinds[a] = "array"
  /\ response.rows[a] # NoRow
  /\ IsWhalePosition(MakePosition(a, response.rows[a]).notionalValue)

\* what C17 asks of every step
C17_Step ==
  \A metaData \in Metas, response \in Responses :
    ScanPositionsBack(metaData, response) /\ metaData.ok =>
      \A a \in Assets :
        /\ ReportsWhale(response, a)
        /\ \E b \in Assets \ {a} : response.kinds[b] = "http-error"
        => \E i \in 1..Len(currentPositions') : currentPositions'[i].asset = a

\* C17: when the position request of one monitored asset fails, the whale position
\* reported for another monitored asset in the same cycle is still in the snapshot
\* that is reconciled
C17_FailureIsolation == [][C17_Step]_vars

\* a cycle whose request for BTC failed has logged the failure and holds no position
C17_AllSkipped ==
  /\ scanPc = "reconcile"
  /\ scanLog = "API"
  /\ currentPositions = <<>>

\* the tracked key is missing from the snapshot that is reconciled
Missing(a) == Has(trackedPositions, a) /\ a \notin CurrentPositionKeys(currentPositions)

\* the closure of key a: closed, PnL against the price of marketStats, record stored
\* (storeClosedPosition, which updates the wallet's statistics), alert by the
\* notional, key deleted
C18_Closed(a) ==
  /\ events'[a].type = "closed"
  /\ events'[a].hasPnl
  /\ events'[a].exitPrice = marketStats[a].price
  /\ events'[a].finalPnl = PnlAmount(trackedPositions[a], marketStats[a].price)
  /\ events'[a].stored
  /\ events'[a].alerted <=> trackedPositions[a].notionalValue >= 1000000
  /\ ~Has(trackedPositions', a)

\* what C18 asks of every step
C18_Step ==
  ReconcilesNow =>
    \A a \in Assets :
      /\ Missing(a) => C18_Closed(a)
      /\ Has(trackedPositions, a) /\ ~Has(trackedPositions', a) => events'[a].stored

\* C18: every tracked key missing from the snapshot is closed in that cycle: realised
\* PnL against the last known market price, closed record stored with the wallet's
\* statistics, closure alert if the notional is at least 1,000,000, key deleted; and no
\* key is deleted without its closed record stored
C18_Closure == [][C18_Step]_vars

\* the same for the keys whose asset has a market price
C18_PricedStep ==
  ReconcilesNow =>
    \A a \in Assets :
      /\ Missing(a) /\ marketStats[a].price # 0 => C18_Closed(a)
      /\ Missing(a) => ~Has(trackedPositions', a)
      /\ ~Missing(a) => (Has(trackedPositions', a) <=>
                            Has(trackedPositions, a) \/ a \in CurrentPositionKeys(currentPositions))

C18_PricedClosure == [][C18_PricedStep]_vars

\* a key was deleted without a closed record: marketStats had no price for its asset
C18_Unrecorded ==
  /\ scanPc = "idle"
  /\ events["BTC"].type = "closed"
  /\ ~events["BTC"].stored
  /\ ~Has(trackedPositions, "BTC")

\* a position worth 1,000,000 was closed with its record and an alert
C18_Alerted ==
  /\ scanPc = "idle"
  /\ events["BTC"].type = "closed"
  /\ events["BTC"].stored
  /\ events["BTC"].alerted
  /\ events["BTC"].size = 20

\* what C19 asks of every step
C19_Step ==
  ReconcilesNow =>
    \A i \in 1..Len(currentPositions) :
      LET position == currentPositions[i]
          a == position.asset
      IN ~Has(trackedPositions, a) =>
           /\ events'[a].type = "new"
           /\ trackedPositions'[a].size = position.size
           /\ trackedPositions'[a].notionalValue = position.notionalValue
           /\ trackedPositions'[a].riskLevel \in 0..5
           /\ marketStats[a].openInterest # 0 =>
                /\ trackedPositions'[a].percentOfOI
                     = Rat(Abs(position.size) * 100, marketStats[a].openInterest)
                /\ trackedPositions'[a].marketImpact.num > 0
           /\ events'[a].stored
           /\ events'[a].alerted <=> position.notionalValue >= 1000000

\* C19: every position of the snapshot whose key is not tracked is added to
\* trackedPositions with its risk analytics and stored, and the new-position alert is
\* posted if and only if its notional is at least 1,000,000, a threshold above the
\* one that selects the positions of the snapshot
C19_NewPosition ==
  /\ ALERT_NOTIONAL > MIN_POSITION_VALUE
  /\ [][C19_Step]_vars

\* one cycle found BTC worth 1,000,000 (alerted) and ETH worth 500,000 (not alerted)
C19_Witness ==
  /\ scanPc = "idle"
  /\ events["BTC"].type = "new"
  /\ events["BTC"].alerted
  /\ trackedPositions["BTC"].notionalValue = 1000000
  /\ events["ETH"].type = "new"
  /\ trackedPositions["ETH"].percentOfOI = Rat(20000, 1000)
  /\ events["ETH"].stored
  /\ ~events["ETH"].alerted

(***************************************************************************)
(* Properties of the process                                               *)
(***************************************************************************)
\* C14: at any moment at most one execution of scanWhalePositions is in progress: a
\* tick of the interval that finds a cycle still suspended starts no second one
C14_NoOverlap == Len(scans) <= 1

\* the interval fired while the cycle before it was suspended in fetchActivePositions
C14_Overlap == scans = <<"positions", "market">>

\* C16: no execution of scanWhalePositions is in progress when the process exits on
\* the shutdown signal (a cycle in flight completes first), and none starts after it
C16_ShutdownCycles ==
  /\ [](exited => aborted = 0)
  /\ [][exited => UNCHANGED scans]_vars

\* the part of C16 about the cycles after the signal
C16_NoneStartsAfter == [][exited => UNCHANGED scans]_vars

\* the signal arrived while a cycle was suspended
C16_Aborted == exited /\ aborted = 1 /\ mainPc = "running"

(***************************************************************************)
(* Properties of the stream client                                         *)
(***************************************************************************)
\* the close callback of the current socket runs in this step
ClosesNow == wsReadyState \in {"CONNECTING", "OPEN"} /\ wsReadyState' = "CLOSED"

\* what C6 asks of every step
C6_Step ==
  ClosesNow /\ wsReconnectAttempts < 10 =>
    /\ reconnectTimers' = reconnectTimers + 1
    /\ wsReconnectAttempts' = wsReconnectAttempts + 1
    /\ lastDelay' = (Ms(5000) \div Pow(2, wsReconnectAttempts)) * Pow(3, wsReconnectAttempts)
    /\ wsReconnectAttempts = 0 => lastDelay' = Ms(5000)
    /\ wsReconnectAttempts = 1 => lastDelay' = Ms(7500)
    /\ wsReconnectAttempts = 2 => lastDelay' = Ms(11250)

\* C6: a close while the counter is k < 10 schedules exactly one reconnect, after
\* 5000 * 1.5^k ms, and makes the counter k + 1; for k = 0, 1, 2 the delays are 5000,
\* 7500 and 11250 ms
C6_ReconnectBackoff == [][C6_Step]_vars

\* three closes in a row without an open: the third reconnect waits 11250 ms
C6_Witness ==
  /\ wsReadyState = "CLOSED"
  /\ wsReconnectAttempts = 3
  /\ reconnectTimers = 1
  /\ lastDelay = Ms(11250)

\* the state after the close that found the counter at the maximum
Failed ==
  /\ wsReadyState = "CLOSED"
  /\ wsReconnectAttempts = MAX_RECONNECT_ATTEMPTS
  /\ reconnectTimers = 0

\* what C7 asks of every step
C7_Step ==
  /\ ClosesNow /\ wsReconnectAttempts = 10 =>
       /\ reconnectTimers' = reconnectTimers
       /\ wsReconnectAttempts' = 10
       /\ log' = "reconnect-failed"
       /\ Failed'
  /\ Failed => UNCHANGED wsVars

\* C7: a close that finds the counter at 10 schedules no reconnect and logs the
\* failure as an error, the client is then in the FAILED state, and no step of the
\* client leaves or changes that state
C7_ReconnectExhaustion == [][C7_Step]_vars

C7_Witness == Failed /\ log = "reconnect-failed"

\* what C8 asks of every step
C8_Step ==
  /\ wsReadyState # "OPEN" /\ wsReadyState' = "OPEN" => wsReconnectAttempts' = 0
  /\ wsReadyState = "OPEN" /\ ClosesNow =>
       /\ lastDelay' = Ms(5000)
       /\ wsReconnectAttempts' = 1
       /\ reconnectTimers' = reconnectTimers + 1

\* C8: every open sets the counter to 0, and the next close after an open schedules
\* its reconnect with the base delay of 5000 ms, as attempt 1 of 10
C8_OpenResetsAttempts == [][C8_Step]_vars

\* a reconnect has opened after three closes in a row, and the counter is 0 again
C8_Witness ==
  /\ wsReadyState = "OPEN"
  /\ lastDelay = Ms(11250)
  /\ wsReconnectAttempts = 0

\* closeWebSocket runs in this step
ClosesSocketNow == ~closeCalled /\ closeCalled'

\* what C15 asks of every step
C15_Step ==
  /\ ClosesSocketNow =>
       /\ wsReadyState \in {"CONNECTING", "OPEN"} => wsReadyState' = "CLOSING"
       /\ wsHeartbeatInterval' = FALSE
       /\ reconnectTimers' = 0
  /\ closeCalled => reconnectTimers' = reconnectTimers

\* C15: closeWebSocket sends the close frame to a connection that is connecting or
\* open, cancels the heartbeat and cancels the pending reconnect timers, and from then
\* on no reconnect is scheduled and no reconnect timer fires to open a new connection
C15_GracefulClose == [][C15_Step]_vars

\* the part of C15 that concerns an open connection and the heartbeat
C15_OpenStep ==
  ClosesSocketNow =>
    /\ wsReadyState = "OPEN" => wsReadyState' = "CLOSING"
    /\ wsHeartbeatInterval' = FALSE

C15_OpenClose == [][C15_OpenStep]_vars

\* after closeWebSocket on an open connection the close handler has scheduled a
\* reconnect, whose timer opened a new connection
C15_Reconnected ==
  /\ closeCalled
  /\ wsReadyState = "OPEN"
  /\ lastDelay = Ms(5000)
  /\ reconnectTimers = 0

\* the message callback runs in this step
MessageNow == \E message \in Frames : WsMessage(message)

\* what C20 asks of every step
C20_Step ==
  MessageNow =>
    /\ lastMessage'.channel = "pong" => lastMessage'.handler = 0
    /\ lastMessage'.channel \in {"trades", "other"} => lastMessage'.handler = 1
    /\ lastMessage'.channel \in {"malformed", "null"} =>
         /\ lastMessage'.handler = 0
         /\ log' = "parse-error"
    /\ wsReadyState' = "OPEN"
    /\ UNCHANGED <<wsHeartbeatInterval, reconnectTimers, staleSockets, subscribed>>

\* C20: the callback never calls the handler for a pong, calls it exactly once for any
\* other message that parses, and for a payload that does not parse logs the error and
\* calls nothing; in every case the connection stays open with its subscriptions and
\* heartbeat, so the next frame is handled as well
C20_MessageHandling == [][C20_Step]_vars

\* a message was handed to the handler after a malformed payload had been dropped
C20_Witness ==
  /\ log = "parse-error"
  /\ lastMessage = [channel |-> "other", handler |-> 1]
  /\ wsReadyState = "OPEN"

(***************************************************************************)
(* Properties of a cycle without prices                                    *)
(***************************************************************************)
\* marketStats holds no price: fetchRealTimePrices has yielded no price in any cycle
\* so far, the one in progress included
NeverPriced == \A a \in Assets : marketStats[a].price = 0

\* what C21 asks of every step
C21_Step ==
  ReconcilesNow /\ NeverPriced =>
    /\ events' = NoEvents
    /\ trackedPositions' = trackedPositions

\* C21: a cycle for which fetchRealTimePrices yielded no price classifies no position
\* as new, updated or closed and leaves trackedPositions as it was; stated for the
\* cycles that run while no price has been received yet
C21_EmptyPricesSkip == [][C21_Step]_vars

\* a cycle without prices has tracked a new position
C21_TrackedUnpriced ==
  /\ scanPc = "idle"
  /\ NeverPriced
  /\ events["BTC"].type = "new"
  /\ Has(trackedPositions, "BTC")

\* what holds of a cycle without prices: no PnL is computed and no liquidation risk
\* other than 0
C21_NoZeroPriceStep ==
  ReconcilesNow /\ NeverPriced =>
    \A a \in Assets :
      /\ ~events'[a].hasPnl
      /\ trackedPositions'[a].liquidationRisk = Zero

C21_NoZeroPriceMath == [][C21_NoZeroPriceStep]_vars

(***************************************************************************)
(* Properties of the size normalisation                                    *)
(***************************************************************************)
\* what C22 asks of every step; the szi of a reported entry stands for the raw size
\* times 10^-szDecimals of its asset
C22_Step ==
  \A metaData \in Metas, response \in Responses :
    ScanPositionsBack(metaData, response) /\ metaData.ok /\ response.kinds = AllArrays =>
      \A a \in Assets :
        ReportsWhale(response, a) =>
          \E i \in 1..Len(currentPositions') :
            /\ currentPositions'[i].asset = a
            /\ currentPositions'[i].size = response.rows[a].szi

\* C22: for an asset that is in the asset-index table, the position reported by the
\* exchange enters the snapshot with its size scaled by 10^-szDecimals of that asset;
\* only an asset missing from the table is skipped as a fetch error
C22_SizeNormalisation == [][C22_Step]_vars

\* every request returned an array, and reading the table threw: the snapshot is empty
C22_TableUnreadable ==
  /\ scanPc = "reconcile"
  /\ scanLog = "ReferenceError"
  /\ currentPositions = <<>>

(***************************************************************************)
(* Properties of the order of admission                                    *)
(***************************************************************************)
\* what C23 asks of every step: a call that finds waiters joins the queue behind them
\* and is not admitted, and the queue is served from its head
C23_Step ==
  /\ \A c \in 1..NumCallers :
       WaitForSlot(c) /\ queue # <<>> =>
         /\ admissions' = admissions
         /\ queue' = Append(queue, c)
  /\ QueueTimer => \E k \in 0..Len(queue) : queue' = SubSeq(queue, k + 1, Len(queue))

\* C23: waiters are admitted in the order of their requests: a call of waitForSlot
\* made while an earlier caller is still queued is not admitted before it, also when
\* a slot has just left the window
C23_Fifo == [][C23_Step]_vars

\* a caller was admitted now, at or after the time the queue's timer was due, while
\* an earlier caller is still queued
C23_Overtaken ==
  /\ queue # <<>>
  /\ wakeAt >= 0
  /\ now >= wakeAt
  /\ admissions # <<>>
  /\ admissions[Len(admissions)] = now

\* the part of C23 about the queue itself
C23_QueueStep ==
  QueueTimer => \E k \in 0..Len(queue) : queue' = SubSeq(queue, k + 1, Len(queue))

C23_QueueInOrder == [][C23_QueueStep]_vars

(***************************************************************************)
(* Properties of the publication of alerts                                 *)
(***************************************************************************)
AllPublished == [a \in Assets |-> "ok"]

\* the log line a failed publication leaves
LoggedAs(outcome) ==
  CASE outcome = "ok" -> "sent"
    [] outcome = "webhook-down" -> "webhook-error"
    [] OTHER -> "tweet-error"

\* a cycle met by `publisher` ends, rejects nothing, and leaves the same keys, records
\* and events as the same cycle met by a publisher that never fails, but for the log
\* of each publication
C24_Step ==
  ReconcilesNow =>
    \E quiet \in {Reconcile(trackedPositions, currentPositions, marketStats,
                            AllPublished)} :
      \A publisher \in PublishersOf(trackedPositions, currentPositions, marketStats) :
        ScanReconcile(publisher) =>
        /\ scanPc' = "idle"
        /\ scanLog' = scanLog
        /\ trackedPositions' = quiet.tracked
        /\ \A a \in Assets :
             /\ [events'[a] EXCEPT !.post = "none"] = [quiet.events[a] EXCEPT !.post = "none"]
             /\ events'[a].post =
                  IF quiet.events[a].alerted THEN LoggedAs(publisher[a]) ELSE "none"

\* C24: a publication that fails (the tweet rejects or is rate-limited, the webhook is
\* down) is caught and logged; the cycle still processes the other positions of the
\* snapshot and the closures, and ends
C24_PublisherFailures == [][C24_Step]_vars

\* the publication for BTC failed and the cycle went on to ETH and ended
C24_Witness ==
  /\ scanPc = "idle"
  /\ events["BTC"].post = "tweet-error"
  /\ events["ETH"].type \in {"new", "closed"}
  /\ events["ETH"].stored

\* the same with the webhook down
C24_WebhookDown ==
  /\ scanPc = "idle"
  /\ events["BTC"].post = "webhook-error"
  /\ events["ETH"].type \in {"new", "closed"}

(***************************************************************************)
(* Properties of the heartbeat                                             *)
(***************************************************************************)
PingSentNow == pings' > pings

\* the close callback of a socket runs in this step, whatever closed it
AnyCloseNow == \E stale \in BOOLEAN : WsClose(stale)

\* a ping goes out on an open connection only, and a close leaves no heartbeat timer
C25_Step ==
  /\ PingSentNow => wsReadyState = "OPEN" /\ wsHeartbeatInterval
  /\ AnyCloseNow => ~wsHeartbeatInterval'
  /\ wsReadyState \in {"CLOSED", "CONNECTING"} => ~PingSentNow

\* C25: a ping is sent only while its connection is open; every close cancels the
\* heartbeat timer; no ping is sent between a close and the next open
C25_Heartbeat == [][C25_Step]_vars

\* no heartbeat timer exists while the connection is closed or being opened
C25_NoTimerUnlessOpen ==
  wsReadyState \in {"NONE", "CLOSED", "CONNECTING", "CLOSING"} => ~wsHeartbeatInterval

\* a connection on which pings were sent has closed and its timer is gone
C25_Witness ==
  /\ wsReadyState = "CLOSED"
  /\ pings > 0
  /\ ~wsHeartbeatInterval

\* a new socket is never created while the previous one is alive
C25_OneSocket == staleSockets = 0

(***************************************************************************)
(* Properties of the subscriptions                                         *)
(***************************************************************************)
OpensNow == wsReadyState # "OPEN" /\ wsReadyState' = "OPEN"

SentOnce(sent, asset) == Cardinality({i \in 1..Len(sent) : sent[i] = asset}) = 1

\* the step that opens a connection sends one subscribe message per monitored asset and
\* no ping; a ping is sent only after them; nothing is subscribed later
C26_Step ==
  /\ OpensNow =>
       /\ Len(subscribed') = Len(MONITORED_ASSETS)
       /\ \A a \in Assets : SentOnce(subscribed', a)
       /\ pings' = 0
  /\ PingSentNow => \A a \in Assets : SentOnce(subscribed, a)
  /\ wsReadyState = "OPEN" /\ wsReadyState' = "OPEN" => subscribed' = subscribed

\* C26: each time the connection reaches OPEN, on the first connect and after every
\* reconnect, exactly one subscribe message per monitored asset is sent on the new
\* connection, before any heartbeat ping on it
C26_SubscribeOnOpen == [][C26_Step]_vars

\* an open connection carries exactly its three subscriptions
C26_OpenSubscribed ==
  wsReadyState = "OPEN" => subscribed = MONITORED_ASSETS

\* a connection opened by a reconnect carries the subscriptions and has pinged
C26_Witness ==
  /\ wsReadyState = "OPEN"
  /\ lastDelay > 0
  /\ subscribed = MONITORED_ASSETS
  /\ pings > 0

(***************************************************************************)
(* Properties of the update alert                                          *)
(***************************************************************************)
\* the size change between the tracked entry and the snapshot, the sizes being signed
SizeChange(position, tracked) == position.size - tracked[position.asset].size

\* what C27 asks of every cycle, for the positions in `which`
C27_For(which) ==
  ReconcilesNow =>
    \A i \in 1..Len(currentPositions) :
      LET position == currentPositions[i]
          a == position.asset
          change == SizeChange(position, trackedPositions)
      IN Has(trackedPositions, a) /\ which[i] =>
           /\ events'[a].type = "updated" =>
                (events'[a].alerted <=>
                   /\ Abs(position.notionalValue) >= 1000000
                   /\ Abs(change) * marketStats[a].price >= 500000)
           /\ 10 * Abs(change) <= Abs(trackedPositions[a].size) =>
                /\ ~events'[a].alerted
                /\ events'[a].post = "none"

\* C27: when a tracked key is updated, the update alert is posted if and only if the
\* position's notional is at least 1,000,000 and the size change times the market price
\* is at least 500,000; a size change of at most 10% posts no alert at all
C27_UpdateAlert == [][C27_For([i \in 1..Len(currentPositions) |-> TRUE])]_vars

\* the same for the positions that are on the side of their tracked entry
C27_SameSide ==
  [][C27_For([i \in 1..Len(currentPositions) |->
               currentPositions[i].direction
                 = trackedPositions[currentPositions[i].asset].direction])]_vars

\* a SHORT of 10 BTC became a LONG of 20 BTC worth 1,000,000 at a market price of
\* 49000: recorded as an update by 10, and no alert
C27_FlipNotAlerted ==
  /\ scanPc = "idle"
  /\ events["BTC"].type = "updated"
  /\ events["BTC"].previousSize = -10
  /\ events["BTC"].size = 20
  /\ events["BTC"].sizeDelta = 10
  /\ marketStats["BTC"].price = 49000
  /\ ~events["BTC"].alerted

\* an update from 10 to 20 BTC at 52000 was alerted
C27_Alerted ==
  /\ scanPc = "idle"
  /\ events["BTC"].type = "updated"
  /\ events["BTC"].previousSize = 10
  /\ events["BTC"].size = 20
  /\ marketStats["BTC"].price = 52000
  /\ events["BTC"].alerted

\* an update from 10 to 20 BTC at 49000 was not: the change is worth 490,000
C27_SmallChange ==
  /\ scanPc = "idle"
  /\ events["BTC"].type = "updated"
  /\ events["BTC"].previousSize = 10
  /\ events["BTC"].size = 20
  /\ marketStats["BTC"].price = 49000
  /\ ~events["BTC"].alerted

(***************************************************************************)
(* Properties of the scans below the update threshold                      *)
(***************************************************************************)
\* what C28 asks of every cycle
C28_Step ==
  ReconcilesNow =>
    \A i \in 1..Len(currentPositions) :
      LET position == currentPositions[i]
          a == position.asset
      IN /\ Has(trackedPositions, a)
         /\ 10 * Abs(SizeChange(position, trackedPositions)) <= Abs(trackedPositions[a].size)
         => /\ trackedPositions'[a] = trackedPositions[a]
            /\ events'[a].type = "unchanged"
            /\ ~events'[a].stored
            /\ events'[a].post = "none"

\* C28: a snapshot that reports a tracked key with a size change of at most 10% of the
\* tracked size leaves the entry as it is (size, notional, analytics) and stores
\* nothing, so the next comparison is against the last recorded size
C28_SubThreshold == [][C28_Step]_vars

\* ETH tracked at 200 was reported at 220, exactly 10% more: the entry still says 200
C28_Witness ==
  /\ scanPc = "idle"
  /\ events["ETH"].type = "unchanged"
  /\ events["ETH"].size = 220
  /\ trackedPositions["ETH"].size = 200
  /\ ~events["ETH"].stored

\* the comparison after such a scan is against the recorded 200: 221 is an update by
\* 21, although it is less than 1% above the 220 seen in between
C28_ComparedToRecorded ==
  scanPc = "idle" /\ events["ETH"].type = "updated" /\ events["ETH"].size = 221
    => events["ETH"].previousSize \in {200, -200}

(***************************************************************************)
(* Properties of the risk analytics                                        *)
(***************************************************************************)
\* is r the integer nearest to num / den, halves going up (Math.round)
Rounds(r, num, den) == 2 * den * r - den <= 2 * num /\ 2 * num < 2 * den * r + den

\* C29: for every position analysed, percentOfOI is |size| / open interest x 100, or 0
\* when the open interest is 0; riskLevel is an integer of 0..5, the rounding of
\* min(leverage / 10, 1) x 2.5 + min(percentOfOI / 5, 1) x 2.5 capped at 5; marketImpact
\* is min(percentOfOI x 2, 100)
C29_RiskLevel ==
  scanPc = "idle" =>
    \A a \in Assets :
      Has(trackedPositions, a) =>
        LET p == trackedPositions[a]
            oi == marketStats[a].openInterest
            n == IF oi = 0 THEN 0 ELSE 100 * Abs(p.size)
            d == IF oi = 0 THEN 1 ELSE oi
        IN /\ p.percentOfOI.num * d = n * p.percentOfOI.den
           /\ p.riskLevel \in 0..5
           /\ \E r \in 0..5 :
                /\ Rounds(r, 5 * Min(p.leverage, 10) * d + 10 * Min(n, 5 * d), 20 * d)
                /\ p.riskLevel = r
           /\ p.marketImpact.num * d = Min(2 * n, 100 * d) * p.marketImpact.den

\* a position at 2.6% of the open interest with leverage 5: 1.25 + 1.3 rounds to 3
C29_Witness ==
  /\ scanPc = "idle"
  /\ trackedPositions["ETH"].size = 26
  /\ trackedPositions["ETH"].leverage = 5
  /\ marketStats["ETH"].openInterest = 1000
  /\ trackedPositions["ETH"].riskLevel = 3

\* both risks at their caps, and the impact at its cap
C29_Capped ==
  /\ scanPc = "idle"
  /\ trackedPositions["ETH"].size = -600
  /\ trackedPositions["ETH"].leverage = 12
  /\ marketStats["ETH"].openInterest = 1000
  /\ trackedPositions["ETH"].riskLevel = 5
  /\ trackedPositions["ETH"].marketImpact.num
       = 100 * trackedPositions["ETH"].marketImpact.den

\* open interest unknown: percentOfOI and marketImpact are 0
C29_UnknownOpenInterest ==
  /\ scanPc = "idle"
  /\ Has(trackedPositions, "ETH")
  /\ marketStats["ETH"].openInterest = 0
  /\ trackedPositions["ETH"].percentOfOI.num = 0
  /\ trackedPositions["ETH"].marketImpact.num = 0
  /\ trackedPositions["ETH"].riskLevel = 3

(***************************************************************************)
(* Properties of the liquidation risk                                      *)
(***************************************************************************)
\* C30: the liquidation risk of every position analysed, at every market price, is a
\* value of 0..100, also when the market price has passed the liquidation price
C30_LiquidationRiskRange ==
  \A a \in Assets :
    Has(trackedPositions, a) =>
      /\ trackedPositions[a].liquidationRisk.num >= 0
      /\ trackedPositions[a].liquidationRisk.num
           <= 100 * trackedPositions[a].liquidationRisk.den

\* a LONG to be liquidated at 45000 analysed at a market price of 40000: 112.5
C30_LongPastLiquidation ==
  /\ scanPc = "idle"
  /\ trackedPositions["ETH"].direction = "LONG"
  /\ trackedPositions["ETH"].liquidationPrice = 45000
  /\ marketStats["ETH"].price = 40000
  /\ trackedPositions["ETH"].liquidationRisk = Rat(4500000, 40000)

\* a SHORT to be liquidated at 55000 analysed at a market price of 60000: 108.3
C30_ShortPastLiquidation ==
  /\ scanPc = "idle"
  /\ trackedPositions["ETH"].direction = "SHORT"
  /\ trackedPositions["ETH"].liquidationPrice = 55000
  /\ marketStats["ETH"].price = 60000
  /\ trackedPositions["ETH"].liquidationRisk = Rat(6500000, 60000)

\* the value is never below 0
C30_Floor ==
  \A a \in Assets : trackedPositions[a].liquidationRisk.num >= 0

\* while the market price has not passed the liquidation price the value is 100 minus
\* the percentage move left to it, floored at 0, and within 0..100
C30_BeforeLiquidation ==
  \A a \in Assets :
    LET p == trackedPositions[a]
        cur == marketStats[a].price
        liq == p.liquidationPrice
        left == IF p.direction = "LONG" THEN cur - liq ELSE liq - cur
    IN /\ scanPc = "idle"
       /\ Has(trackedPositions, a)
       /\ InvalidLiquidation(p) = FALSE
       /\ liq # 0
       /\ cur # 0
       /\ left >= 0
       => /\ p.liquidationRisk = Rat(Max(0, 100 * cur - 100 * left), cur)
          /\ p.liquidationRisk.num <= 100 * p.liquidationRisk.den

\* the floor at work: a SHORT to be liquidated at 55000 with the market at 20000
C30_Floored ==
  /\ scanPc = "idle"
  /\ trackedPositions["ETH"].direction = "SHORT"
  /\ trackedPositions["ETH"].liquidationPrice = 55000
  /\ marketStats["ETH"].price = 20000
  /\ trackedPositions["ETH"].liquidationRisk.num = 0

(***************************************************************************)
(* Properties of the stream trade path                                     *)
(***************************************************************************)
\* is the trade named tid, delivered now, new and worth the whale threshold
NewWhaleTrade(tid) ==
  /\ tid # 0
  /\ Count(tid, processedTradeIds) = 0
  /\ TradeOf(RawTrade(tid), 1).isWhale

\* what C31 asks of every message the open socket delivers
C31_Step ==
  \A message \in Frames :
    WsMessage(message) /\ message.channel = "trades" =>
      /\ \A i \in 1..Len(message.data) :
           NewWhaleTrade(message.data[i]) =>
             /\ Count(message.data[i], recentWhaleTrades') = 1
             /\ Count(message.data[i], processedTradeIds') = 1
      /\ \A tid \in TradeIds :
           Count(tid, recentWhaleTrades') > Count(tid, recentWhaleTrades) =>
             \E i \in 1..Len(message.data) : NewWhaleTrade(message.data[i])

\* C31: every trade of a trades message that has an identifier not seen before and a
\* notional at or above the whale threshold is recorded as a whale trade; a trade below
\* the threshold or seen before is never recorded
C31_StreamTradePath == [][C31_Step]_vars

\* a trades message was delivered, the handler ended in its catch, nothing is recorded
C31_Dropped ==
  /\ lastMessage.channel = "trades"
  /\ lastMessage.handler = 1
  /\ log = "handler-error"
  /\ recentWhaleTrades = <<>>
  /\ processedTradeIds = <<>>

\* nothing is ever recorded from the stream
C31_NothingRecorded == recentWhaleTrades = <<>> /\ processedTradeIds = <<>>

\* the filters on their own, given the array extractTradeData is meant to return: the
\* trades kept by the deduplicator that are worth the threshold are appended, no other
C31_FilterStep ==
  \A tids \in Messages :
    HandleTrades(tids) =>
      /\ recentWhaleTrades' = recentWhaleTrades \o processWhaleTrades(lastKept')
      /\ \A i \in 1..Len(tids) :
           NewWhaleTrade(tids[i]) => Count(tids[i], recentWhaleTrades') = 1

C31_Filters == [][C31_FilterStep]_vars

(***************************************************************************)
(* Properties of the closures after a failed snapshot                      *)
(***************************************************************************)
\* the snapshot of the cycle now reconciling is the [] of a failed fetch
SnapshotFailed == scanLog # "none"

\* what C32 asks of every cycle
C32_Step ==
  ReconcilesNow /\ SnapshotFailed =>
    \A a \in Assets :
      Has(trackedPositions, a) =>
        /\ trackedPositions'[a] = trackedPositions[a]
        /\ events'[a].type # "closed"

\* C32: a tracked position is closed and removed only in a cycle whose snapshot fetch
\* succeeded and did not report its key; a cycle whose position fetch failed closes no
\* tracked position
C32_NoClosureOnFailure == [][C32_Step]_vars

\* the fetch failed with an API error and the tracked BTC position was closed with a PnL
C32_ClosedOnFailure ==
  /\ scanPc = "idle"
  /\ scanLog = "API"
  /\ events["BTC"].type = "closed"
  /\ events["BTC"].stored
  /\ ~Has(trackedPositions, "BTC")

\* a key is closed only when the snapshot handed to the loops does not hold it
C32_OnlyMissingStep ==
  ReconcilesNow =>
    \A a \in Assets :
      events'[a].type = "closed" =>
        /\ Has(trackedPositions, a)
        /\ a \notin CurrentPositionKeys(currentPositions)

C32_OnlyMissing == [][C32_OnlyMissingStep]_vars

(***************************************************************************)
(* Properties of the eviction order                                        *)
(***************************************************************************)
\* the filter runs in this step (a handler that resumes after its await only takes an
\* asset out of pendingPriceUpdates)
FiltersNow == pendingPriceUpdates \subseteq pendingPriceUpdates'

\* what C33 asks of every message: the identifiers evicted are the earliest of the
\* insertion order (the set before the message, then the identifiers kept, in order),
\* a whole number of batches; what is left is the rest of that order; the identifier
\* whose admission evicted is still in the set, so its repeat is rejected; and when
\* the last admission of the message evicted, MAX + 1 - BATCH identifiers are left
C33_Step ==
  FiltersNow =>
    /\ processedTradeIds \o lastKept' = lastEvicted' \o processedTradeIds'
    /\ lastEvicted' # <<>> <=> Len(processedTradeIds) + Len(lastKept') > MAX_CACHED_TRADE_IDS
    /\ lastEvicted' # <<>> =>
         /\ Len(lastEvicted') % EVICT_BATCH = 0
         /\ lastTrigger' # <<>>
         /\ Count(lastTrigger'[1], processedTradeIds') = 1
         /\ Rejects(processedTradeIds', lastTrigger'[1])
         /\ Len(processedTradeIds') >= MAX_CACHED_TRADE_IDS + 1 - EVICT_BATCH
         /\ lastTrigger'[1] = lastKept'[Len(lastKept')] =>
              Len(processedTradeIds') = MAX_CACHED_TRADE_IDS + 1 - EVICT_BATCH

\* C33: when an admit raises processedTradeIds above the maximum, exactly the
\* identifiers inserted earliest are removed (1000 of 10,001, leaving 9,001), the
\* identifier just admitted is not among them, and a repeat of it is rejected
C33_EvictionOrder ==
  /\ EVICT_BATCH <= MAX_CACHED_TRADE_IDS
  /\ [][C33_Step]_vars

\* after a message whose last trade evicted: the earliest identifier is gone, the
\* admitted one is the newest of the set
C33_Witness ==
  /\ lastEvicted # <<>>
  /\ lastTrigger # <<>>
  /\ Len(processedTradeIds) = MAX_CACHED_TRADE_IDS + 1 - EVICT_BATCH
  /\ processedTradeIds[Len(processedTradeIds)] = lastTrigger[1]
  /\ \A i \in 1..Len(lastEvicted) : Count(lastEvicted[i], processedTradeIds) = 0

(***************************************************************************)
(* Properties of the connection chain                                      *)
(***************************************************************************)
\* sockets that are connecting or open: the current one unless it has closed, and
\* the terminated ones whose close event is still due
LiveSockets ==
  (IF wsReadyState \in {"CONNECTING", "OPEN", "CLOSING"} THEN 1 ELSE 0) + staleSockets

ActiveHeartbeats == IF wsHeartbeatInterval THEN 1 ELSE 0

\* C34: after any sequence of open, error, close and reconnect-timer events that follows
\* the one connectWebSocket call of startup, at most one socket is connecting or open,
\* at most one reconnect timer is pending, at most one heartbeat timer is active, and a
\* reconnect timer is pending only while no socket is connecting or open
C34_SingleChain ==
  /\ LiveSockets <= 1
  /\ reconnectTimers <= 1
  /\ ActiveHeartbeats <= 1
  /\ reconnectTimers > 0 => LiveSockets = 0
  /\ wsHeartbeatInterval => LiveSockets = 1

\* a reconnected socket failed with an error and closed: one timer pending, no socket
C34_Witness ==
  /\ wsReadyState = "CLOSED"
  /\ wsReconnectAttempts >= 2
  /\ log = "ws-error"
  /\ reconnectTimers = 1
  /\ LiveSockets = 0
  /\ ~wsHeartbeatInterval

(***************************************************************************)
(* Properties of the wait queue                                            *)
(***************************************************************************)
Queued(c) == \E i \in 1..Len(queue) : queue[i] = c

\* the loop of processQueue is suspended on its timer
LoopActive == processing /\ wakeAt >= 0

\* the first half of C35: waiters are never left without a loop, the loop runs only
\* for waiters, and waitForSlot starts none while one runs
C35_LoopStep ==
  \A c \in 1..NumCallers :
    WaitForSlot(c) /\ processing => wakeAt' = wakeAt /\ processing'

C35_LoopActive == [](queue # <<>> <=> LoopActive) /\ [][C35_LoopStep]_vars

\* waiters are queued behind a sleeping loop
C35_Waiting == Len(queue) = NumCallers /\ LoopActive /\ now < wakeAt

\* C35: whenever the wait queue is non-empty a processQueue loop is active, at most
\* one at a time, and every suspended call of waitForSlot is eventually admitted
\* provided time advances
C35_NoLostWakeup ==
  /\ [](queue # <<>> => LoopActive)
  /\ \A c \in 1..NumCallers : Queued(c) ~> ~Queued(c)

\* the loop woke after the oldest request left the window and found the slot taken
C35_SlotTaken ==
  /\ queue # <<>>
  /\ LoopActive
  /\ now < wakeAt
  /\ Len(requests) = MAX_REQUESTS
  /\ requests[MAX_REQUESTS] = now

\* a call admitted directly while another call waits
Barges == \E c \in 1..NumCallers : WaitForSlot(c) /\ queue # <<>> /\ admissions' # admissions

\* what does hold of the second half: the waiters are admitted once no call is
\* admitted past them any more
C35_AdmittedUnlessBarged ==
  <>[][~Barges]_vars => \A c \in 1..NumCallers : Queued(c) ~> ~Queued(c)

(***************************************************************************)
(* Properties of the Map after a cycle                                     *)
(***************************************************************************)
TrackedKeys(tracked) == {a \in Assets : Has(tracked, a)}

\* what C36 asks of the step that ends a cycle
C36_Step ==
  ReconcilesNow =>
    /\ TrackedKeys(trackedPositions') = CurrentPositionKeys(currentPositions)
    /\ \A a \in TrackedKeys(trackedPositions') :
         IsWhalePosition(trackedPositions'[a].notionalValue)

\* C36: when a reconciliation cycle completes and no other cycle ran beside it, the
\* keys of trackedPositions are the keys of that cycle's snapshot, and every tracked
\* position has a notional at or above the whale threshold
C36_PostCycle ==
  /\ [][C36_Step]_vars
  /\ [](\A a \in TrackedKeys(trackedPositions) :
          IsWhalePosition(trackedPositions[a].notionalValue))

\* a cycle has ended that closed one key, opened another and kept a third unchanged
C36_Witness ==
  /\ scanPc = "idle"
  /\ scanLog = "none"
  /\ events["BTC"].type = "closed"
  /\ events["ETH"].type = "new"
  /\ TrackedKeys(trackedPositions) = {"ETH"}

(***************************************************************************)
(* Properties of the open-interest refresh                                 *)
(***************************************************************************)
\* the open interest the metadata reports for the asset at its index in the table
ReportedOpenInterest(metaData, asset) == metaData.openInterest[assetIndices[asset] + 1]

\* updateMarketStats has run with this metadata
MarketUpdated(metaData) ==
  /\ scanPc = "idle"
  /\ scanPc' = "positions"
  /\ \E prices \in PriceMaps : TrackerMarket(prices, metaData)

C37_StepFor(assets) ==
  \A metaData \in Metas :
    MarketUpdated(metaData) /\ metaData.ok =>
      \A asset \in assets :
        ReportedOpenInterest(metaData, asset) # 0 =>
          marketStats'[asset].openInterest = ReportedOpenInterest(metaData, asset)

\* C37: after updateMarketStats has run with metadata fetched successfully, the open
\* interest of every monitored asset in the index table is the one reported in the
\* asset context at its index, the asset at index 0 included
C37_OpenInterestRefresh == [][C37_StepFor(Assets)]_vars

\* the metadata has been applied and the asset at index 0 still has no open interest
C37_IndexZeroStale ==
  /\ scanPc = "positions"
  /\ marketStats["ETH"].openInterest = 1000
  /\ marketStats["BTC"].openInterest = 0

\* what does hold: the refresh of the assets whose index is not 0
C37_NonZeroIndex == [][C37_StepFor({a \in Assets : assetIndices[a] # 0})]_vars

====
